---- MODULE Spec2Model ----
(***************************************************************************)
(* Document correlation and processing state machine of the document      *)
(* processing pipeline: the ingest handler (lambda/ingest_handler.py),      *)
(* the OCR stage (lambda/ocr_handler.py), the aggregation stage             *)
(* (lambda/aggregator_handler.py) and the classification stage              *)
(* (lambda/llm_handler.py), run as stateless invocations over one record    *)
(* store (DynamoDB table), one bucket and the Textract job service.         *)
(*                                                                         *)
(* Strings are sequences of one-character strings, so that the regular     *)
(* expressions of the ingest handler are computed character by character.  *)
(* The folder name "incoming" is a single token of a key.                   *)
(***************************************************************************)
EXTENDS Integers, Sequences, FiniteSets, TLC

\* ------------------------------------------------------------------------
\* Bounds of the model
\* ------------------------------------------------------------------------
\* Upload notifications delivered in a run of Spec (the whole pipeline).
MaxDeliveries == 2

\* Ingest invocations that can run at the same time.
MaxInvocations == 2

\* Notifications delivered in a run of SpecSeq (one invocation at a time).
MaxSeqDeliveries == 3

\* Notifications delivered in a run of SpecIngest (ingest handler alone).
MaxIngestDeliveries == 3

\* Notifications delivered in a run of SpecRedelivery.
MaxRedeliveries == 4

\* Notifications delivered in a run of SpecStoreFaults and SpecMarkerFaults.
MaxFaultDeliveries == 2

\* Textract jobs beyond which the orchestrator of SpecOcrRetry retries no
\* failed stage.
MaxJobs == 3

\* Notifications delivered in a run of SpecValidate.
MaxValidateDeliveries == 2

\* ------------------------------------------------------------------------
\* Strings
\* ------------------------------------------------------------------------
Range(s) == {s[i] : i \in DOMAIN s}

Min(S) == CHOOSE x \in S : \A y \in S : x <= y

Max(S) == CHOOSE x \in S : \A y \in S : x >= y

Slice(s, a, b) == [i \in 1..(b - a + 1) |-> s[a + i - 1]]

IsDigit(c) == c \in {"0", "1", "2", "3", "4", "5", "6", "7", "8", "9"}

IsSeparator(c) == c \in {"_", "-"}

DigitValue(c) ==
    CASE c = "0" -> 0 [] c = "1" -> 1 [] c = "2" -> 2 [] c = "3" -> 3
      [] c = "4" -> 4 [] c = "5" -> 5 [] c = "6" -> 6 [] c = "7" -> 7
      [] c = "8" -> 8 [] c = "9" -> 9

RECURSIVE ParseInt(_)
ParseInt(ds) ==
    IF ds = <<>> THEN 0
    ELSE 10 * ParseInt(Slice(ds, 1, Len(ds) - 1)) + DigitValue(ds[Len(ds)])

AllDigits(s, a, b) == \A i \in a..b : IsDigit(s[i])

StartsWith(s, prefix) ==
    /\ Len(prefix) <= Len(s)
    /\ \A i \in 1..Len(prefix) : s[i] = prefix[i]

LowerChar(c) ==
    CASE c = "J" -> "j" [] c = "P" -> "p" [] c = "G" -> "g"
      [] c = "D" -> "d" [] c = "F" -> "f" [] c = "I" -> "i"
      [] OTHER -> c

Lower(s) == [i \in DOMAIN s |-> LowerChar(s[i])]

\* urllib.parse.unquote_plus: '+' decodes to a space (no key of the model
\* holds a percent escape).
UnquotePlus(s) == [i \in DOMAIN s |-> IF s[i] = "+" THEN " " ELSE s[i]]

\* key.split('/')[-1]
LastSegment(key) ==
    LET slashes == {i \in DOMAIN key : key[i] = "/"}
    IN IF slashes = {} THEN key ELSE Slice(key, Max(slashes) + 1, Len(key))

IncomingPrefix == <<"incoming", "/">>

\* ------------------------------------------------------------------------
\* Filename correlator (ingest_handler.py, lambda_handler, lines 104-124)
\* ------------------------------------------------------------------------
\* End of the maximal digit run that starts at position a (a - 1 if none).
DigitRunEnd(f, a) ==
    LET ends == {j \in (a - 1)..Len(f) : AllDigits(f, a, j)}
    IN Max(ends)

\* Stem lengths i for which ^(.+?)[_-](\d+)\.(.+)$ matches with group 1 =
\* f[1..i]: a separator, one or more digits up to a dot, a non-empty rest.
PageStems(f) ==
    {i \in 1..Len(f) :
        /\ i + 1 <= Len(f)
        /\ IsSeparator(f[i + 1])
        /\ LET j == DigitRunEnd(f, i + 2)
           IN /\ j >= i + 2
              /\ j + 2 <= Len(f)
              /\ f[j + 1] = "."}

\* Stem lengths i for which ^(.+)\.(.+)$ matches with group 1 = f[1..i].
PlainStems(f) ==
    {i \in 1..Len(f) : i + 2 <= Len(f) /\ f[i + 1] = "."}

NoMatch == [matched |-> FALSE]

\* The (base_filename, page_number, file_extension) of a filename.
ParseFilename(f) ==
    IF PageStems(f) # {}
    THEN LET i == Min(PageStems(f))        \* (.+?) is lazy
             j == DigitRunEnd(f, i + 2)
         IN [matched |-> TRUE,
             base_filename |-> Slice(f, 1, i),
             page_number |-> ParseInt(Slice(f, i + 2, j)),
             file_extension |-> Slice(f, j + 2, Len(f))]
    ELSE IF PlainStems(f) # {}
    THEN LET i == Max(PlainStems(f))       \* (.+) is greedy
         IN [matched |-> TRUE,
             base_filename |-> Slice(f, 1, i),
             page_number |-> 1,
             file_extension |-> Slice(f, i + 2, Len(f))]
    ELSE NoMatch

\* Stem lengths i for which ^(.+?)[_-]?\d*\.(.+)$ matches with group 1 =
\* f[1..i]: an optional separator, any number of digits, a dot, a rest.
StoredStems(f) ==
    {i \in 1..Len(f) :
        \E s \in {0, 1} :
            /\ (s = 1) => (i + 1 <= Len(f) /\ IsSeparator(f[i + 1]))
            /\ \E m \in 0..Len(f) :
                /\ i + s + m + 2 <= Len(f)
                /\ AllDigits(f, i + s + 1, i + s + m)
                /\ f[i + s + m + 1] = "."}

\* stored_match.group(1) of find_existing_document_id.
StoredBase(f) ==
    IF StoredStems(f) = {} THEN [matched |-> FALSE]
    ELSE [matched |-> TRUE, base |-> Slice(f, 1, Min(StoredStems(f)))]

\* ------------------------------------------------------------------------
\* The uploads of the model
\* ------------------------------------------------------------------------
KeyD1 == IncomingPrefix \o <<"d", "-", "1", ".", "j", "p", "g">>

KeyD2 == IncomingPrefix \o <<"d", "-", "2", ".", "j", "p", "g">>

KeyDigitStem == IncomingPrefix \o <<"d", "1", ".", "j", "p", "g">>

PageKeys == {KeyD1, KeyD2, KeyDigitStem}

\* Uploads that fail a check of the ingest handler, or pass one a reader
\* may not expect: a key outside incoming/, a filename without a dot, an
\* extension the handler does not list, a TIFF page, an upper-case
\* extension, and a JPEG uploaded without a content type.
KeyOutside == <<"complete", "/", "d", "-", "1", ".", "j", "p", "g">>

KeyNoDot == IncomingPrefix \o <<"d">>

KeyText == IncomingPrefix \o <<"d", "-", "1", ".", "t", "x", "t">>

KeyTif == IncomingPrefix \o <<"d", "-", "1", ".", "t", "i", "f">>

KeyUpper == IncomingPrefix \o <<"d", "-", "1", ".", "J", "P", "G">>

KeyDirect == IncomingPrefix \o <<"d", "-", "3", ".", "j", "p", "g">>

ValidationKeys ==
    {KeyD1, KeyD2, KeyOutside, KeyNoDot, KeyText, KeyTif, KeyUpper, KeyDirect}

\* s3.upload_file with no ExtraArgs: the object gets the service's default
\* content type.
DirectUploads == {KeyDirect}

\* Filenames of every shape over a letter, a separator, a digit and a dot,
\* alone and followed by ".jpg".
CorrelatorAlphabet == {"d", "-", "1", "."}

\* The lengths of a filename body (the part before the optional ".jpg"):
\* the shortest body that holds two separator-digits groups has six
\* characters.
BodyLengths == 1..6

Bodies == UNION {[1..n -> CorrelatorAlphabet] : n \in BodyLengths}

CorrelatorFilenames == Bodies \cup {b \o <<".", "j", "p", "g">> : b \in Bodies}

CorrelatorKeys == {IncomingPrefix \o f : f \in CorrelatorFilenames}

\* os.path.splitext(filename)[1] without its dot: what follows the last dot
\* that is not one of the leading dots.
SplitExt(filename) ==
    LET dots == {i \in DOMAIN filename :
                    filename[i] = "." /\ \E j \in 1..(i - 1) : filename[j] # "."}
    IN IF dots = {} THEN <<>> ELSE Slice(filename, Max(dots) + 1, Len(filename))

\* get_content_type: the content type an uploader stores with an object
\* follows its extension.
GetContentType(key) ==
    LET file_extension == Lower(SplitExt(LastSegment(key)))
    IN IF file_extension \in {<<"j", "p", "g">>, <<"j", "p", "e", "g">>}
       THEN "image/jpeg"
       ELSE IF file_extension = <<"p", "n", "g">>
       THEN "image/png"
       ELSE IF file_extension = <<"p", "d", "f">>
       THEN "application/pdf"
       ELSE IF file_extension = <<"t", "x", "t">>
       THEN "text/plain"
       ELSE "application/octet-stream"

\* The content type stored with each object of the bucket.
UploadContentType ==
    [k \in PageKeys \cup ValidationKeys \cup CorrelatorKeys |->
        IF k \in DirectUploads THEN "binary/octet-stream" ELSE GetContentType(k)]

SupportedExtensions ==
    {<<"j", "p", "g">>, <<"j", "p", "e", "g">>, <<"p", "n", "g">>, <<"p", "d", "f">>}

ValidMimeTypes == {"image/jpeg", "image/png", "application/pdf"}

\* ------------------------------------------------------------------------
\* State
\* ------------------------------------------------------------------------
VARIABLES
    table,        \* DynamoDB table: document_id -> item (attribute -> value)
    bucket,       \* keys of the objects present under incoming/
    deliveries,   \* number of upload notifications delivered so far
    ingest,       \* the ingest invocations: locals and position
    recorded,     \* history: [key, doc, created] of every page write
    executions,   \* Step Functions executions: input, stage, stage locals
    textract,     \* Textract async jobs: JobId -> [page, status]
    artifacts,    \* objects written under staging/, results/ and complete/
    scans,        \* what a page object shows: image size and text lines
    pii           \* PII processing: the feature flag and the PII queue

vars == <<table, bucket, deliveries, ingest, recorded,
          executions, textract, artifacts, scans, pii>>

Invocations == 1..MaxInvocations

None == 0

EmptyMap == [a \in {} |-> 0]

IdleInvocation ==
    [pc |-> "idle", key |-> <<>>, filename |-> <<>>, base_filename |-> <<>>,
     file_extension |-> <<>>, document_id |-> None, created |-> FALSE,
     pages |-> <<>>, status |-> "", error |-> <<>>, page_number |-> 0]

\* An invocation that has ended by raising error to its caller (line 292).
Raised(error) == [IdleInvocation EXCEPT !.error = error]

\* ------------------------------------------------------------------------
\* Record store
\* ------------------------------------------------------------------------
\* item.get(attribute, default)
Get(item, attribute, default) ==
    IF attribute \in DOMAIN item THEN item[attribute] ELSE default

\* table.update_item with a SET expression: an upsert of the attributes
\* named; every other attribute of the item is kept.
UpdateItem(t, id, values) ==
    LET old == IF id \in DOMAIN t THEN t[id] ELSE [document_id |-> id]
    IN [d \in DOMAIN t \cup {id} |-> IF d = id THEN values @@ old ELSE t[d]]

\* str(e) of the ClientError a call of the table raises; call names the
\* call that failed.
StoreError(call) == <<"ClientError", call>>

\* The error of a failure-marker write that failed.
MarkerWriteError == StoreError("update_item FAILED")

\* The SET of a failure marker: status and last_error in one update.
FailedMarkerNoError(message) == [status |-> "FAILED"]

FailedMarker(message) == [status |-> "FAILED", last_error |-> message]

\* find_existing_document_id: the documents the scan can return first
\* ({None} when no item matches).
FindExistingDocumentId(t, base_filename) ==
    LET matches ==
            {d \in DOMAIN t :
                /\ "original_filename" \in DOMAIN t[d]
                /\ StartsWith(t[d].original_filename, base_filename)
                /\ StoredBase(t[d].original_filename).matched
                /\ StoredBase(t[d].original_filename).base = base_filename}
    IN IF matches = {} THEN {None} ELSE matches

\* check_pii_processing_config with no pii_processing item in the config
\* table (the repository creates none): disabled, nothing queued.
PiiDisabled == [enabled |-> FALSE, queue |-> <<>>]

Init ==
    /\ table = EmptyMap
    /\ bucket = {}
    /\ deliveries = 0
    /\ ingest = [p \in Invocations |-> IdleInvocation]
    /\ recorded = {}
    /\ executions = <<>>
    /\ textract = <<>>
    /\ artifacts = EmptyMap
    /\ scans = EmptyMap
    /\ pii = PiiDisabled

\* ------------------------------------------------------------------------
\* Ingest handler (ingest_handler.py, lambda_handler)
\* ------------------------------------------------------------------------
\* uuid.uuid4(): an identifier no item and no running invocation holds.
\* (Identifiers are opaque; one that was generated and never written is
\* indistinguishable from one that was never generated.)
NewDocumentId ==
    Min({i \in 1..(deliveries + 1) :
            /\ i \notin DOMAIN table
            /\ \A q \in Invocations : ingest[q].document_id # i})

\* Lines 96-134: a notification for `key` is delivered to a free invocation;
\* the key is parsed and the document id resolved by a scan (or generated).
\* put: the delivery follows an upload of the object (TRUE), or it repeats
\* an earlier notification or follows the object's removal (FALSE).
IngestReceive(p, k, put) ==
    /\ ingest[p].pc = "idle"
    /\ \A q \in Invocations : ingest[q].pc = "idle" => p <= q
    /\ deliveries' = deliveries + 1
    /\ bucket' = IF put THEN bucket \cup {k} ELSE bucket
    /\ LET key == UnquotePlus(k)
           filename == LastSegment(key)
           parsed == ParseFilename(filename)
       IN IF ~StartsWith(key, IncomingPrefix) \/ ~parsed.matched
          THEN ingest' = [ingest EXCEPT ![p] = IdleInvocation]
          ELSE \E found \in FindExistingDocumentId(table, parsed.base_filename) :
                  ingest' = [ingest EXCEPT ![p] =
                        [IdleInvocation EXCEPT
                            !.pc = "validate",
                            !.key = key,
                            !.filename = filename,
                            !.base_filename = parsed.base_filename,
                            !.page_number = parsed.page_number,
                            !.file_extension = parsed.file_extension,
                            !.document_id = IF found = None THEN NewDocumentId ELSE found,
                            !.created = (found = None)]]
    /\ UNCHANGED <<table, recorded, executions, textract, artifacts,
                   scans, pii>>

\* Line 137
ExtensionRejected(file_extension) ==
    Lower(file_extension) \notin SupportedExtensions

\* Lines 136-156: the page passes the extension check, head_object returns
\* (the object exists) and its content type is a valid one.
Accepted(inv, objects) ==
    /\ ~ExtensionRejected(inv.file_extension)
    /\ inv.key \in objects
    /\ UploadContentType[inv.key] \in ValidMimeTypes

\* A handler that raises for a page it does not accept.
ValidationOutcomeRaising(inv, accepted) ==
    IF accepted THEN [inv EXCEPT !.pc = "get"]
    ELSE Raised(<<"Unsupported file type">>)

\* Lines 139, 150, 156: continue; the invocation goes on to its next record.
ValidationOutcome(inv, accepted) ==
    IF accepted THEN [inv EXCEPT !.pc = "get"] ELSE IdleInvocation

\* Lines 136-156: extension check, then head_object and MIME check; a page
\* that fails is skipped.
IngestValidate(p) ==
    /\ ingest[p].pc = "validate"
    /\ ingest' = [ingest EXCEPT ![p] =
           ValidationOutcome(ingest[p], Accepted(ingest[p], bucket))]
    /\ UNCHANGED <<table, bucket, deliveries, recorded,
                   executions, textract, artifacts,
                   scans, pii>>

\* Lines 169-181: the doc_item built for a Document that has no item. The
\* times are datetime.utcnow() and thirty days after it.
NewDocItem(document_id, filename) ==
    [document_id |-> document_id, original_filename |-> filename,
     status |-> "AWAITING_PAGES", pages_received |-> 0, pages |-> <<>>,
     textract_jobs |-> EmptyMap, ocr_text_keys |-> <<>>, retries |-> 0,
     created_at |-> "utcnow", updated_at |-> "utcnow", ttl |-> "utcnow + 30 days"]

\* Lines 160-186: get_item, or a new item that lives in the invocation
\* only; of either the handler goes on with pages (line 189) and status.
IngestGetItem(p) ==
    /\ ingest[p].pc = "get"
    /\ LET inv == ingest[p]
           found == inv.document_id \in DOMAIN table
           doc_item == IF found THEN table[inv.document_id]
                       ELSE NewDocItem(inv.document_id, inv.filename)
       IN ingest' = [ingest EXCEPT ![p] =
              [inv EXCEPT
                  !.pc = "update",
                  !.pages = Get(doc_item, "pages", <<>>),
                  !.status = IF found THEN Get(doc_item, "status", "AWAITING_PAGES")
                             ELSE "AWAITING_PAGES"]]
    /\ UNCHANGED <<table, bucket, deliveries, recorded,
                   executions, textract, artifacts,
                   scans, pii>>

\* Lines 188-194
AppendPage(pages, key) ==
    IF key \in Range(pages) THEN pages ELSE Append(pages, key)

\* Lines 196-216: the attributes the page update sets.
PageUpdateCountOnCreate(pages, status, filename) ==
    [pages |-> pages]
    @@ (IF Len(pages) = 1
        THEN [pages_received |-> 1, status |-> "AWAITING_PAGES",
              original_filename |-> filename]
        ELSE IF status = "COMPLETE" /\ Len(pages) > 1
        THEN [status |-> "AWAITING_PAGES"]
        ELSE EmptyMap)

PageUpdate(pages, status, filename) ==
    [pages |-> pages, pages_received |-> Len(pages)]
    @@ (IF Len(pages) = 1
        THEN [status |-> "AWAITING_PAGES", original_filename |-> filename]
        ELSE IF status = "COMPLETE" /\ Len(pages) > 1
        THEN [status |-> "AWAITING_PAGES"]
        ELSE EmptyMap)

\* Lines 233-237
ShouldStartWhenBatched(pages, status) ==
    \/ (status = "COMPLETE" /\ Len(pages) > 1)
    \/ (status = "AWAITING_PAGES" /\ Len(pages) > 1)

ShouldStartUnlessRunning(pages, status) ==
    \/ (Len(pages) = 1 /\ status = "AWAITING_PAGES")
    \/ (status \notin {"OCR_RUNNING", "AGGREGATING", "LLM_RUNNING"} /\ Len(pages) > 1)

ShouldStartProcessing(pages, status) ==
    \/ (Len(pages) = 1 /\ status = "AWAITING_PAGES")
    \/ (status = "COMPLETE" /\ Len(pages) > 1)
    \/ (status = "AWAITING_PAGES" /\ Len(pages) > 1)

\* Lines 188-239: append the page, write pages and pages_received (and the
\* reset status), decide whether to start processing.
IngestUpdate(p) ==
    /\ ingest[p].pc = "update"
    /\ LET inv == ingest[p]
           pages == AppendPage(inv.pages, inv.key)
       IN /\ table' = UpdateItem(table, inv.document_id,
                          PageUpdate(pages, inv.status, inv.filename))
          /\ recorded' = recorded \cup
                 {[key |-> inv.key, doc |-> inv.document_id, created |-> inv.created]}
          /\ ingest' = [ingest EXCEPT ![p] =
                 IF ShouldStartProcessing(pages, inv.status)
                 THEN [inv EXCEPT !.pc = "start", !.pages = pages]
                 ELSE IdleInvocation]
    /\ UNCHANGED <<bucket, deliveries, executions, textract,
                   artifacts,
                   scans, pii>>

\* The orchestrator: the stage an execution invokes after a stage result.
\* A stage that raises ends the execution; ocr_in_progress invokes the OCR
\* stage again.
NextStage(result) ==
    CASE result = "started" -> "ocr"
      [] result = "read" -> "ocr_check"
      [] result = "ocr_in_progress" -> "ocr"
      [] result = "ocr_complete" -> "aggregate"
      [] result = "aggregated" -> "llm"
      [] result = "complete" -> "succeeded"
      [] result = "raised" -> "failed"

\* An execution whose stage ended by raising error: the orchestrator gets
\* the error of the stage it invoked.
StageRaised(ex, error) ==
    [ex EXCEPT !.pc = NextStage("raised"), !.error = error, !.raised_by = ex.pc]

\* The input of a started execution and the first stage it invokes.
NewExecution(document_id, pages) ==
    [document_id |-> document_id, pages |-> pages, pc |-> NextStage("started"),
     textract_jobs |-> EmptyMap, ocr_text_keys |-> <<>>,
     error |-> <<>>, raised_by |-> "", puts |-> <<>>,
     schemas |-> {}, schema_passes |-> <<>>]

\* Lines 241-252 and 269-282: start_execution; when it raises, the failure
\* marker is written and the error re-raised.
IngestStartExecution(p, ok) ==
    /\ ingest[p].pc = "start"
    /\ LET inv == ingest[p]
       IN IF ok
          THEN /\ executions' = Append(executions, NewExecution(inv.document_id, inv.pages))
               /\ ingest' = [ingest EXCEPT ![p] = [inv EXCEPT !.pc = "mark"]]
               /\ table' = table
          ELSE /\ executions' = executions
               /\ ingest' = [ingest EXCEPT ![p] =
                      Raised(<<"Error starting Step Functions">>)]
               /\ table' = UpdateItem(table, inv.document_id,
                               FailedMarker(<<"Error starting Step Functions">>))
    /\ UNCHANGED <<bucket, deliveries, recorded, textract,
                   artifacts,
                   scans, pii>>

\* Lines 254-264: the status write after a successful hand-off.
IngestMarkRunning(p) ==
    /\ ingest[p].pc = "mark"
    /\ table' = UpdateItem(table, ingest[p].document_id,
                    [status |-> "OCR_RUNNING",
                     step_function_execution_arn |-> Len(executions)])
    /\ ingest' = [ingest EXCEPT ![p] = IdleInvocation]
    /\ UNCHANGED <<bucket, deliveries, recorded, executions,
                   textract, artifacts,
                   scans, pii>>

\* Lines 160-186 and 290-292: get_item raises; the handler re-raises.
IngestGetItemRaises(p) ==
    /\ ingest[p].pc = "get"
    /\ ingest' = [ingest EXCEPT ![p] = Raised(StoreError("get_item"))]
    /\ UNCHANGED <<table, bucket, deliveries, recorded,
                   executions, textract, artifacts,
                   scans, pii>>

\* Lines 228 and 290-292: the page update raises; nothing catches it
\* before the handler's outer except, which re-raises.
IngestUpdateRaises(p) ==
    /\ ingest[p].pc = "update"
    /\ ingest' = [ingest EXCEPT ![p] = Raised(StoreError("update_item pages"))]
    /\ UNCHANGED <<table, bucket, deliveries, recorded,
                   executions, textract, artifacts,
                   scans, pii>>

\* Lines 247-282: start_execution raises and the write of the failure
\* marker (line 272, in the except block, not guarded) raises too: the
\* raise of line 282 is not reached and the marker write's error leaves the
\* handler.
IngestMarkerRaises(p) ==
    /\ ingest[p].pc = "start"
    /\ ingest' = [ingest EXCEPT ![p] = Raised(MarkerWriteError)]
    /\ UNCHANGED <<table, bucket, deliveries, recorded,
                   executions, textract, artifacts,
                   scans, pii>>

\* Lines 255-282: the OCR_RUNNING write (inside the try of the hand-off,
\* after the execution was started) raises; the failure marker is written
\* (marker_ok) or its write raises too.
IngestMarkRunningRaises(p, marker_ok) ==
    /\ ingest[p].pc = "mark"
    /\ IF marker_ok
       THEN /\ table' = UpdateItem(table, ingest[p].document_id,
                             FailedMarker(StoreError("update_item OCR_RUNNING")))
            /\ ingest' = [ingest EXCEPT ![p] =
                   Raised(StoreError("update_item OCR_RUNNING"))]
       ELSE /\ table' = table
            /\ ingest' = [ingest EXCEPT ![p] = Raised(MarkerWriteError)]
    /\ UNCHANGED <<bucket, deliveries, recorded, executions,
                   textract, artifacts,
                   scans, pii>>

\* ------------------------------------------------------------------------
\* External services and artifact names
\* ------------------------------------------------------------------------
SyncComplete == <<"SYNC_COMPLETE">>

JobHandle(n) == <<"job", n>>

\* get_document_text_detection raises InvalidJobIdException for a handle
\* that names no job of the service.
ValidJob(tx, handle) == handle[1] = "job" /\ handle[2] \in DOMAIN tx

\* f"staging/{document_id}/text_page_{page_number}.txt"
TextKey(document_id, page_number) == <<"staging", document_id, "text_page", page_number>>

\* f"staging/{document_id}/combined.txt"
CombinedKey(document_id) == <<"staging", document_id, "combined">>

\* f"results/{document_id}_response.json"
ResultKey(document_id) == <<"results", document_id, "response">>

\* extract_text_from_textract_response: the text of the lines of one page.
TextOf(page_key) == <<"text of ">> \o page_key

\* pages.index(page_key) + 1
PageNumber(pages, page_key) == Min({i \in DOMAIN pages : pages[i] = page_key})

PutObject(objects, key, body) ==
    [k \in DOMAIN objects \cup {key} |-> IF k = key THEN body ELSE objects[k]]

\* A job that has not failed has no StatusMessage.
NoMessage == ""

\* The StatusMessage of a failed job (it may be absent).
StatusMessages == {NoMessage, "InvalidImageType"}

\* A Textract job ends (the service's own step).
TextractJobEnds(j, status) ==
    /\ j \in DOMAIN textract
    /\ textract[j].status = "IN_PROGRESS"
    /\ \E m \in (IF status = "FAILED" THEN StatusMessages ELSE {NoMessage}) :
          textract' = [textract EXCEPT ![j].status = status, ![j].message = m]
    /\ UNCHANGED <<table, bucket, deliveries, ingest, recorded,
                   executions, artifacts,
                   scans, pii>>

\* ------------------------------------------------------------------------
\* OCR stage (ocr_handler.py, lambda_handler)
\* ------------------------------------------------------------------------
\* Lines 230-242 (and aggregator_handler.py 78-91, llm_handler.py 115-128):
\* the failure-marker write of a stage, inside try / except: pass; a write
\* that raises leaves the table as it is.
MarkFailed(t, document_id, error, marker_ok) ==
    IF marker_ok THEN UpdateItem(t, document_id, FailedMarker(error)) ELSE t

\* Lines 75-76 / 123-124
AppendTextKey(keys, text_key) ==
    IF text_key \in Range(keys) THEN keys ELSE Append(keys, text_key)

\* A read of the message that always takes the default.
StatusMessageDefault(job) == "Unknown error"

\* Line 81: response.get('StatusMessage', 'Unknown error')
StatusMessage(job) == IF job.message = NoMessage THEN "Unknown error" ELSE job.message

\* Lines 52-93: the poll of a page that has a recorded handle (multi-page
\* invocations only).  acc: [jobs, keys, textract, artifacts, puts, error];
\* puts lists the keys of the invocation's put_object calls.
PollPage(acc, document_id, pages, page_key) ==
    LET handle == acc.jobs[page_key]
    IN IF ~ValidJob(acc.textract, handle)
       THEN acc                                   \* InvalidJobIdException: pass
       ELSE LET job == acc.textract[handle[2]]
            IN IF job.status = "SUCCEEDED"
               THEN LET text_key == TextKey(document_id, PageNumber(pages, page_key))
                    IN [acc EXCEPT
                           !.artifacts = PutObject(acc.artifacts, text_key, TextOf(job.page)),
                           !.puts = Append(acc.puts, text_key),
                           !.keys = AppendTextKey(acc.keys, text_key)]
               ELSE IF job.status = "FAILED"
               THEN [acc EXCEPT !.error = <<"Textract job failed for ">> \o page_key
                                            \o <<": ", StatusMessage(job)>>]
               ELSE acc                           \* still in progress: continue

\* A submission that starts an asynchronous job whatever the page count.
SubmitPageAsyncOnly(acc, document_id, pages, page_key, objects) ==
    IF page_key \notin objects
    THEN [acc EXCEPT !.error = <<"Unable to get object metadata from S3">>]
    ELSE [acc EXCEPT
             !.textract = Append(acc.textract,
                                 [page |-> page_key, status |-> "IN_PROGRESS", message |-> NoMessage]),
             !.jobs = PutObject(acc.jobs, page_key, JobHandle(Len(acc.textract) + 1))]

\* Lines 96-150: a page with no recorded handle is submitted.
SubmitPage(acc, document_id, pages, page_key, objects) ==
    IF page_key \notin objects
    THEN [acc EXCEPT !.error = <<"Unable to get object metadata from S3">>]
    ELSE IF Len(pages) = 1
    THEN LET text_key == TextKey(document_id, 1)
         IN [acc EXCEPT
                !.artifacts = PutObject(acc.artifacts, text_key, TextOf(page_key)),
                !.puts = Append(acc.puts, text_key),
                !.keys = AppendTextKey(acc.keys, text_key),
                !.jobs = PutObject(acc.jobs, page_key, SyncComplete)]
    ELSE LET job_id == Len(acc.textract) + 1
         IN [acc EXCEPT
                !.textract = Append(acc.textract,
                                    [page |-> page_key, status |-> "IN_PROGRESS", message |-> NoMessage]),
                !.jobs = PutObject(acc.jobs, page_key, JobHandle(job_id))]

\* Lines 51-150: one iteration of the loop over the pages of the event.
ProcessPage(acc, document_id, pages, page_key, objects) ==
    LET polled ==
            IF page_key \in DOMAIN acc.jobs /\ Len(pages) # 1
            THEN PollPage(acc, document_id, pages, page_key)
            ELSE acc
    IN IF polled.error # <<>> THEN polled
       ELSE IF page_key \notin DOMAIN polled.jobs
       THEN SubmitPage(polled, document_id, pages, page_key, objects)
       ELSE polled

RECURSIVE ProcessPages(_, _, _, _, _)
ProcessPages(acc, document_id, pages, i, objects) ==
    IF i > Len(pages) \/ acc.error # <<>> THEN acc
    ELSE ProcessPages(ProcessPage(acc, document_id, pages, pages[i], objects),
                      document_id, pages, i + 1, objects)

\* Lines 163-187: the completion check over the pages of the event.
AllComplete(pages, jobs, tx) ==
    \A i \in DOMAIN pages :
        /\ pages[i] \in DOMAIN jobs
        /\ IF Len(pages) = 1
           THEN jobs[pages[i]] = SyncComplete
           ELSE /\ ValidJob(tx, jobs[pages[i]])
                /\ tx[jobs[pages[i]][2]].status = "SUCCEEDED"

\* Lines 31-161 and 226-244: read the item, process every page, write
\* textract_jobs and ocr_text_keys; an error writes the failure marker.
\* objects: the pages the service can read; marker_ok: the table accepts
\* the failure marker.
OcrInvoke(e, objects, marker_ok) ==
    /\ e \in DOMAIN executions
    /\ executions[e].pc = "ocr"
    /\ LET ex == executions[e]
           found == ex.document_id \in DOMAIN table
           item == IF found THEN table[ex.document_id] ELSE EmptyMap
           start == [jobs |-> Get(item, "textract_jobs", EmptyMap),
                     keys |-> Get(item, "ocr_text_keys", <<>>),
                     textract |-> textract,
                     artifacts |-> artifacts,
                     puts |-> <<>>,
                     error |-> IF ex.pages = <<>>
                               THEN <<"No pages provided for OCR processing">>
                               ELSE IF ~found THEN <<"Document not found in DynamoDB">>
                               ELSE <<>>]
           acc == ProcessPages(start, ex.document_id, ex.pages, 1, objects)
       IN /\ textract' = acc.textract
          /\ artifacts' = acc.artifacts
          /\ IF acc.error # <<>>
             THEN /\ table' = MarkFailed(table, ex.document_id, acc.error, marker_ok)
                  /\ executions' = [executions EXCEPT
                         ![e] = [StageRaised(ex, acc.error) EXCEPT !.puts = acc.puts]]
             ELSE /\ table' = UpdateItem(table, ex.document_id,
                                  [textract_jobs |-> acc.jobs, ocr_text_keys |-> acc.keys])
                  /\ executions' = [executions EXCEPT
                         ![e].pc = NextStage("read"),
                         ![e].textract_jobs = acc.jobs,
                         ![e].ocr_text_keys = acc.keys,
                         ![e].puts = acc.puts,
                         ![e].error = <<>>,
                         ![e].raised_by = ""]
    /\ UNCHANGED <<bucket, deliveries, ingest, recorded,
                   scans, pii>>

OcrProcess(e) == OcrInvoke(e, bucket, TRUE)

\* An invocation in which the service cannot read page k: its submission
\* raises (lines 148-150).
OcrRejects(e, k) == OcrInvoke(e, bucket \ {k}, TRUE)

\* The orchestrator invokes again the stage that raised (a retry).
RetryStage(e) ==
    /\ e \in DOMAIN executions
    /\ executions[e].pc = NextStage("raised")
    /\ Len(textract) < MaxJobs
    /\ executions' = [executions EXCEPT ![e].pc = executions[e].raised_by]
    /\ UNCHANGED <<table, bucket, deliveries, ingest, recorded,
                   textract, artifacts,
                   scans, pii>>

\* Lines 201-204 and send_to_pii_queue: with the feature flag enabled the
\* completed Document is sent to the PII queue.
SendToPiiQueue(p, document_id, pages, ocr_text_keys, send_ok) ==
    IF p.enabled /\ send_ok
    THEN [p EXCEPT !.queue = Append(p.queue,
                      [document_id |-> document_id, pages |-> pages,
                       ocr_text_keys |-> ocr_text_keys])]
    ELSE p

\* Lines 163-224: the completion check; AGGREGATING when complete, else
\* the stage reports ocr_in_progress and is invoked again.
OcrCheckInvoke(e, send_ok) ==
    /\ e \in DOMAIN executions
    /\ executions[e].pc = "ocr_check"
    /\ LET ex == executions[e]
       IN IF AllComplete(ex.pages, ex.textract_jobs, textract)
          THEN /\ table' = UpdateItem(table, ex.document_id, [status |-> "AGGREGATING"])
               /\ pii' = SendToPiiQueue(pii, ex.document_id, ex.pages,
                                         ex.ocr_text_keys, send_ok)
               /\ executions' = [executions EXCEPT
                      ![e].pc = NextStage("ocr_complete"), ![e].textract_jobs = EmptyMap,
                      ![e].puts = <<>>]
          ELSE /\ table' = table
               /\ pii' = pii
               /\ executions' = [executions EXCEPT
                      ![e].pc = NextStage("ocr_in_progress"), ![e].textract_jobs = EmptyMap,
                      ![e].ocr_text_keys = <<>>, ![e].puts = <<>>]
    /\ UNCHANGED <<bucket, deliveries, ingest, recorded,
                   textract, artifacts, scans>>

\* The completion check with a queue that takes the message.
OcrCheck(e) == OcrCheckInvoke(e, TRUE)

\* ------------------------------------------------------------------------
\* Aggregation stage (aggregator_handler.py, lambda_handler)
\* ------------------------------------------------------------------------
\* Lines 36-41: combined_text += f"--- Page {i+1} ---\n{text_content}\n\n"
\* for the text keys in order, starting from the i-th.
RECURSIVE CombineFrom(_, _, _, _)
CombineFrom(combined_text, keys, i, objects) ==
    IF i > Len(keys) THEN combined_text
    ELSE CombineFrom(combined_text
                       \o <<"--- Page ", ToString(i), " ---", "\n">>
                       \o objects[keys[i]] \o <<"\n", "\n">>,
                     keys, i + 1, objects)

\* A loop that numbers the pages from 0 (enumerate's index, not i+1).
CombinedTextFromZero(keys, objects) ==
    LET Numbered[i \in 0..Len(keys)] ==
            IF i = 0 THEN <<>>
            ELSE Numbered[i - 1] \o <<"--- Page ", ToString(i - 1), " ---", "\n">>
                   \o objects[keys[i]] \o <<"\n", "\n">>
    IN Numbered[Len(keys)]

CombinedText(keys, objects) == CombineFrom(<<>>, keys, 1, objects)

\* Lines 32-44: the error the stage raises before it writes anything.
AggregateError(keys, objects) ==
    IF keys = <<>>
    THEN <<"No OCR text keys provided for aggregation">>
    ELSE IF \E i \in DOMAIN keys : keys[i] \notin DOMAIN objects
    THEN <<"NoSuchKey">>
    ELSE <<>>

\* A stage that stores what it could read before it raises.
AggregateOutputPartial(objects, document_id, keys) ==
    PutObject(objects, CombinedKey(document_id),
              CombinedText(SelectSeq(keys, LAMBDA k : k \in DOMAIN objects), objects))

\* Lines 36-53: the objects of the bucket after the stage.
AggregateOutput(objects, document_id, keys) ==
    IF AggregateError(keys, objects) # <<>>
    THEN objects
    ELSE PutObject(objects, CombinedKey(document_id), CombinedText(keys, objects))

AggregateInvoke(e, marker_ok) ==
    /\ e \in DOMAIN executions
    /\ executions[e].pc = "aggregate"
    /\ LET ex == executions[e]
           error == AggregateError(ex.ocr_text_keys, artifacts)
       IN /\ artifacts' = AggregateOutput(artifacts, ex.document_id, ex.ocr_text_keys)
          /\ IF error # <<>>
             THEN /\ table' = MarkFailed(table, ex.document_id, error, marker_ok)
                  /\ executions' = [executions EXCEPT ![e] = StageRaised(ex, error)]
             ELSE /\ table' = UpdateItem(table, ex.document_id,
                                  [combined_key |-> CombinedKey(ex.document_id)])
                  /\ executions' = [executions EXCEPT ![e].pc = NextStage("aggregated")]
    /\ UNCHANGED <<bucket, deliveries, ingest, recorded, textract,
                   scans, pii>>

Aggregate(e) == AggregateInvoke(e, TRUE)

\* ------------------------------------------------------------------------
\* Classification stage (llm_handler.py, lambda_handler)
\* ------------------------------------------------------------------------
\* new_key = page_key.replace('incoming/', f'complete/{document_id}/')
CompleteKey(document_id, page_key) == <<"complete", document_id, page_key>>

\* The objects and the moved_files before the first page (line 338).
NothingMoved(objects, stored) ==
    [objects |-> objects, stored |-> stored, moved_files |-> <<>>]

\* Lines 340-360 with the delete before the copy.
MoveFileDeleteFirst(acc, document_id, page_key, copy_ok, delete_ok) ==
    IF page_key \notin acc.objects \/ ~delete_ok THEN acc
    ELSE LET deleted == [acc EXCEPT !.objects = @ \ {page_key}]
         IN IF ~copy_ok THEN deleted
            ELSE [deleted EXCEPT
                     !.stored = PutObject(@, CompleteKey(document_id, page_key), page_key),
                     !.moved_files = Append(@, CompleteKey(document_id, page_key))]

\* Lines 340-360: one page of move_files_to_complete. copy_object raises
\* for a page that is not in incoming/ or when copy_ok is FALSE;
\* delete_object raises when delete_ok is FALSE. Either error ends the
\* page without an entry in moved_files.
MoveFile(acc, document_id, page_key, copy_ok, delete_ok) ==
    IF page_key \notin acc.objects \/ ~copy_ok THEN acc
    ELSE LET copied == [acc EXCEPT
                           !.stored = PutObject(@, CompleteKey(document_id, page_key),
                                                page_key)]
         IN IF ~delete_ok THEN copied
            ELSE [copied EXCEPT
                     !.objects = @ \ {page_key},
                     !.moved_files = Append(@, CompleteKey(document_id, page_key))]

\* move_files_to_complete (lines 336-362) from page i on; copy_fails and
\* delete_fails are the pages whose copy_object and delete_object raise.
RECURSIVE MoveFilesToComplete(_, _, _, _, _, _)
MoveFilesToComplete(acc, document_id, pages, copy_fails, delete_fails, i) ==
    IF i > Len(pages) THEN acc
    ELSE MoveFilesToComplete(
             MoveFile(acc, document_id, pages[i],
                      pages[i] \notin copy_fails, pages[i] \notin delete_fails),
             document_id, pages, copy_fails, delete_fails, i + 1)

\* The name of the built-in schema (line 160).
DefaultSchema == "default"

\* The schema files the model stores under system-schemas/.
SchemaFiles == {"classification", "invoice"}

\* load_schemas_from_s3 (lines 132-168): the names of the schemas loaded
\* from the readable files, the built-in default when there is none.
LoadSchemasFromS3(schema_files) ==
    IF schema_files = {} THEN {DefaultSchema} ELSE schema_files

\* call_openai_api (lines 231-334): the outcomes of one call. A reply that
\* is not JSON, or has no document_type, is a success without one.
FailedReply == [success |-> FALSE, error |-> "HTTP error"]

TypedReply == [success |-> TRUE, data |-> [document_type |-> "invoice"]]

UntypedReply == [success |-> TRUE, data |-> [raw_text |-> "text"]]

Replies == {FailedReply, TypedReply, UntypedReply}

\* Lines 198-210: the name of the schema of the specific extraction pass.
SchemaMapping(doc_type) ==
    CASE doc_type = "promotion" -> "banking"
      [] doc_type = "credit_card" -> "credit_cards"
      [] doc_type \in {"receipt", "contract", "letter"} -> "invoice"
      [] OTHER -> doc_type

\* process_document_with_llm (lines 170-229): the classification pass is
\* made when a schema named classification was loaded, the specific pass
\* when the classification succeeded and the schema of its type was loaded.
ProcessDocumentWithLlm(document_text, schemas, reply) ==
    IF "classification" \notin schemas
    THEN [document_analysis |-> EmptyMap, schema_passes |-> <<>>,
          document_text |-> document_text]
    ELSE LET doc_type == Get(Get(reply, "data", EmptyMap), "document_type", "unknown")
         IN [document_analysis |-> [pass \in {"classification"} |-> reply],
             schema_passes |->
                 <<"classification">>
                 \o (IF reply.success /\ SchemaMapping(doc_type) \in schemas
                     THEN <<"specific_extraction">> ELSE <<>>),
             document_text |-> document_text]

\* Lines 66-67: results.get('document_analysis', {}).get('classification', {})
ClassificationResult(results) == Get(results.document_analysis, "classification", EmptyMap)

\* Line 69: the document_type of a successful classification.
DocumentType(classification_result) ==
    Get(Get(classification_result, "data", EmptyMap), "document_type", "unknown")

\* Lines 42-50 alone: the reply of the classification call is not looked at.
ClassifyErrorOfReadOnly(combined_key, objects, classification_result) ==
    IF combined_key \notin DOMAIN objects
    THEN <<"Failed to read combined text from ">> \o combined_key
    ELSE <<>>

\* Lines 42-76: the error the stage raises before it writes anything.
ClassifyError(combined_key, objects, classification_result) ==
    IF combined_key \notin DOMAIN objects
    THEN <<"Failed to read combined text from ">> \o combined_key
    ELSE IF ~Get(classification_result, "success", FALSE)
    THEN <<"OpenAI API call failed", Get(classification_result, "error", "Unknown error")>>
    ELSE <<>>

\* The update of line 90 without the put_object before it.
StoreResultsSkipped(objects, result_key, results) == objects

\* Lines 78-85: the results are stored under results/ before the files
\* are moved and the Document is updated.
StoreResults(objects, result_key, results) ==
    PutObject(objects, result_key, results)

\* Lines 39-130. schema_files are the readable schema files, reply the
\* outcome of the classification call, copy_fails and delete_fails the
\* pages whose copy and delete raise, marker_ok the outcome of the
\* failure-marker write.
ClassifyInvoke(e, schema_files, reply, copy_fails, delete_fails, marker_ok) ==
    /\ e \in DOMAIN executions
    /\ executions[e].pc = "llm"
    /\ LET ex == executions[e]
           combined_key == CombinedKey(ex.document_id)
           schemas == LoadSchemasFromS3(schema_files)
           document_text == IF combined_key \in DOMAIN artifacts
                            THEN artifacts[combined_key] ELSE <<>>
           results == ProcessDocumentWithLlm(document_text, schemas, reply)
           classification_result == ClassificationResult(results)
           error == ClassifyError(combined_key, artifacts, classification_result)
           result_key == ResultKey(ex.document_id)
           moved == MoveFilesToComplete(
                        NothingMoved(bucket, StoreResults(artifacts, result_key, results)),
                        ex.document_id, ex.pages, copy_fails, delete_fails, 1)
       IN IF error # <<>>
          THEN /\ table' = MarkFailed(table, ex.document_id, error, marker_ok)
               /\ executions' = [executions EXCEPT
                      ![e] = [StageRaised(ex, error) EXCEPT
                                 !.schemas = schemas,
                                 !.schema_passes = results.schema_passes]]
               /\ UNCHANGED <<artifacts, bucket>>
          ELSE /\ artifacts' = moved.stored
               /\ bucket' = moved.objects
               /\ table' = UpdateItem(table, ex.document_id,
                               [status |-> "COMPLETE",
                                result_key |-> result_key,
                                moved_files |-> moved.moved_files,
                                document_type |-> DocumentType(classification_result),
                                llm_results |-> results])
               /\ executions' = [executions EXCEPT
                      ![e].pc = NextStage("complete"),
                      ![e].schemas = schemas,
                      ![e].schema_passes = results.schema_passes]
    /\ UNCHANGED <<deliveries, ingest, recorded, textract,
                   scans, pii>>

\* The stage with the classification schema in place and no S3 fault; ok
\* is the outcome of the classification call.
Classify(e, ok) ==
    ClassifyInvoke(e, {"classification"}, IF ok THEN TypedReply ELSE FailedReply,
                   {}, {}, TRUE)

\* ------------------------------------------------------------------------
\* Specifications
\* ------------------------------------------------------------------------
AllIdle == \A q \in Invocations : ingest[q].pc = "idle"

\* ------------------------------------------------------------------------
\* PII handler (pii_handler.py)
\* ------------------------------------------------------------------------
\* A normalized coordinate: the fraction n/d of the width or height.
Fraction(n, d) == [n |-> n, d |-> d]

\* bbox['Left'] + bbox['Width']
FractionSum(f, g) == Fraction(f.n * g.d + g.n * f.d, f.d * g.d)

\* int(f * size): the product truncated toward zero.
Truncate(f, size) ==
    IF f.n * size >= 0
    THEN (f.n * size) \div f.d
    ELSE -((-(f.n * size)) \div f.d)

\* Line 347: padding = 8
padding == 8

\* Lines 340-351 without the clamping to the image.
PaintedRectangleUnclamped(bbox, img_width, img_height) ==
    <<Truncate(bbox.Left, img_width) - padding,
      Truncate(bbox.Top, img_height) - padding,
      Truncate(FractionSum(bbox.Left, bbox.Width), img_width) + padding,
      Truncate(FractionSum(bbox.Top, bbox.Height), img_height) + padding>>

\* Lines 340-354: the rectangle [left, top, right, bottom] painted for one
\* bounding box on an image of img_width x img_height pixels.
PaintedRectangle(bbox, img_width, img_height) ==
    LET left == Truncate(bbox.Left, img_width)
        top == Truncate(bbox.Top, img_height)
        right == Truncate(FractionSum(bbox.Left, bbox.Width), img_width)
        bottom == Truncate(FractionSum(bbox.Top, bbox.Height), img_height)
    IN <<Max({0, left - padding}),
         Max({0, top - padding}),
         Min({img_width, right + padding}),
         Min({img_height, bottom + padding})>>

\* Texts are sequences of words; these words match a pattern of
\* detect_pii_in_text (lines 186-211), every other word matches none.
SsnWord == "123-45-6789"

EmailWords == {"a@b.co", "A@B.CO"}

PiiType(word) ==
    IF word = SsnWord THEN "ssn"
    ELSE IF word \in EmailWords THEN "email"
    ELSE ""

\* Confidence of a pattern (lines 186-211).
Confidence(pii_type) == "high"

\* str.lower() of a word.
LowerWord(word) == IF word = "A@B.CO" THEN "a@b.co" ELSE word

\* str.lower() of a text.
LowerText(text) == [i \in DOMAIN text |-> LowerWord(text[i])]

\* pii_text in text_block: substring containment.
ContainsText(text_block, pii_text) ==
    \E i \in 0..(Len(text_block) - Len(pii_text)) :
        SubSeq(text_block, i + 1, i + Len(pii_text)) = pii_text

\* re.finditer of the pattern of one type: its matches in text order
\* (lines 221-231).
MatchesOf(pii_type, text) ==
    LET RECURSIVE From(_)
        From(i) ==
            IF i > Len(text) THEN <<>>
            ELSE (IF PiiType(text[i]) = pii_type
                  THEN <<[type |-> pii_type, text |-> <<text[i]>>,
                          start_pos |-> i, confidence |-> Confidence(pii_type)]>>
                  ELSE <<>>) \o From(i + 1)
    IN From(1)

\* detect_pii_in_text (lines 180-247): the matches of each pattern, in the
\* order of the patterns.
DetectPiiInText(text) == MatchesOf("ssn", text) \o MatchesOf("email", text)

\* extract_text_from_textract_response: '\n'.join of the line texts.
JoinLines(lines) ==
    LET RECURSIVE From(_)
        From(i) ==
            IF i > Len(lines) THEN <<>>
            ELSE lines[i].text \o (IF i < Len(lines) THEN <<"\n">> ELSE <<>>)
                 \o From(i + 1)
    IN From(1)

\* get_textract_response returning None (lines 175-177).
NoResponse == [ok |-> FALSE, Blocks |-> <<>>]

\* get_textract_response (lines 166-177): the LINE blocks of the page
\* object, None when the object cannot be read.
GetTextractResponse(objects, page_scans, page_key) ==
    IF page_key \in objects /\ page_key \in DOMAIN page_scans
    THEN [ok |-> TRUE, Blocks |-> page_scans[page_key].lines]
    ELSE NoResponse

\* get_ocr_text (lines 159-164): "" when the object cannot be read.
GetOcrText(stored, ocr_text_key) ==
    IF ocr_text_key \in DOMAIN stored THEN stored[ocr_text_key] ELSE <<>>

\* Lines 288-294: the dict text_to_boxes as its items in insertion order; a
\* line whose text was seen before replaces the box, not the position.
TextToBoxes(lines) ==
    LET LastOf(text) == Max({j \in DOMAIN lines : lines[j].text = text})
        RECURSIVE From(_)
        From(i) ==
            IF i > Len(lines) THEN <<>>
            ELSE (IF \A j \in 1..(i - 1) : lines[j].text # lines[i].text
                  THEN <<[text |-> lines[i].text,
                          bbox |-> lines[LastOf(lines[i].text)].bbox]>>
                  ELSE <<>>) \o From(i + 1)
    IN From(1)

\* Lines 297-318: the boxes appended for one detection (none or one).
BoxesFor(detection, text_to_boxes) ==
    LET exact == {i \in DOMAIN text_to_boxes : text_to_boxes[i].text = detection.text}
        partial == {i \in DOMAIN text_to_boxes :
                       ContainsText(LowerText(text_to_boxes[i].text),
                                    LowerText(detection.text))}
        Box(i) == [type |-> detection.type, text |-> detection.text,
                   bounding_box |-> text_to_boxes[i].bbox,
                   confidence |-> detection.confidence]
    IN IF exact # {} THEN <<Box(Min(exact))>>
       ELSE IF partial # {} THEN <<Box(Min(partial))>>
       ELSE <<>>

\* map_pii_to_bounding_boxes (lines 281-320).
MapPiiToBoundingBoxes(pii_detections, textract_response) ==
    IF ~textract_response.ok THEN <<>>
    ELSE LET text_to_boxes == TextToBoxes(textract_response.Blocks)
             RECURSIVE From(_)
             From(i) ==
                 IF i > Len(pii_detections) THEN <<>>
                 ELSE BoxesFor(pii_detections[i], text_to_boxes) \o From(i + 1)
         IN From(1)

\* f"results/{document_id}_page_{page_num}_redacted.jpg"
RedactedKey(document_id, page_num) ==
    <<"results", document_id, "page", page_num, "redacted">>

\* f"pii-results/{document_id}_pii_analysis.json"
PiiResultKey(document_id) == <<"pii-results", document_id, "pii_analysis">>

\* redact_image returning None (lines 376-378).
NoKey == <<>>

\* redact_image (lines 322-378): the key it returns and the objects stored
\* after it. The image is the page with every mapped box painted over; a
\* page that cannot be read or opened as an image is not redacted.
RedactImage(stored, objects, page_scans, page_key, bounding_boxes, document_id, page_num) ==
    IF page_key \in objects /\ page_key \in DOMAIN page_scans
       /\ page_scans[page_key].raster
    THEN LET scan == page_scans[page_key]
             image == [source |-> page_key,
                       size |-> <<scan.width, scan.height>>,
                       painted |-> [b \in DOMAIN bounding_boxes |->
                                      PaintedRectangle(bounding_boxes[b].bounding_box,
                                                       scan.width, scan.height)]]
         IN [key |-> RedactedKey(document_id, page_num),
             stored |-> PutObject(stored, RedactedKey(document_id, page_num), image)]
    ELSE [key |-> NoKey, stored |-> stored]

\* Lines 64-70: the results before the first page.
NoPiiResults(stored) ==
    [stored |-> stored, detected_pii |-> FALSE,
     redacted_images |-> <<>>, pii_detections |-> <<>>]

\* Lines 73-99 with the test of line 86 removed: every page is redacted.
PiiPageAlways(acc, message, objects, page_scans, i) ==
    LET page_key == message.pages[i]
        ocr_text == GetOcrText(acc.stored, message.ocr_text_keys[i])
        textract_response == GetTextractResponse(objects, page_scans, page_key)
        pii_detections == DetectPiiInText(ocr_text)
        bounding_boxes == MapPiiToBoundingBoxes(pii_detections, textract_response)
        redacted == RedactImage(acc.stored, objects, page_scans, page_key,
                                bounding_boxes, message.document_id, i)
    IN [stored |-> redacted.stored,
        detected_pii |-> TRUE,
        redacted_images |-> acc.redacted_images
                            \o (IF redacted.key # NoKey THEN <<redacted.key>> ELSE <<>>),
        pii_detections |-> acc.pii_detections \o pii_detections]

\* Lines 73-99: one page of the loop.
PiiPage(acc, message, objects, page_scans, i) ==
    LET page_key == message.pages[i]
        ocr_text == GetOcrText(acc.stored, message.ocr_text_keys[i])
        textract_response == GetTextractResponse(objects, page_scans, page_key)
        pii_detections == DetectPiiInText(ocr_text)
        bounding_boxes == MapPiiToBoundingBoxes(pii_detections, textract_response)
        redacted == RedactImage(acc.stored, objects, page_scans, page_key,
                                bounding_boxes, message.document_id, i)
    IN IF pii_detections # <<>>
       THEN [stored |-> redacted.stored,
             detected_pii |-> TRUE,
             redacted_images |-> acc.redacted_images
                                 \o (IF redacted.key # NoKey THEN <<redacted.key>> ELSE <<>>),
             pii_detections |-> acc.pii_detections \o pii_detections]
       ELSE acc

\* Line 73: the loop over zip(pages, ocr_text_keys).
RECURSIVE PiiPages(_, _, _, _, _)
PiiPages(acc, message, objects, page_scans, i) ==
    IF i > Min({Len(message.pages), Len(message.ocr_text_keys)}) THEN acc
    ELSE PiiPages(PiiPage(acc, message, objects, page_scans, i),
                  message, objects, page_scans, i + 1)

\* Lines 101-107: the summary of the results.
ProcessingSummary(message, results) ==
    [total_pages |-> Len(message.pages),
     pages_with_pii |-> Len(results.redacted_images),
     total_pii_instances |-> Len(results.pii_detections),
     pii_types_detected |-> {results.pii_detections[i].type :
                                i \in DOMAIN results.pii_detections}]

\* Line 60.
NoTextKeysError == <<"No OCR text keys provided for PII processing">>

\* The success update with the PII outcome written as the status too.
PiiUpdateWithStatus(result_key) ==
    [pii_processing_complete |-> TRUE, pii_result_key |-> result_key,
     pii_error |-> <<>>, status |-> "PII_PROCESSED"]

\* Lines 118-128: the attributes the success update sets (pii_error None).
PiiUpdate(result_key) ==
    [pii_processing_complete |-> TRUE, pii_result_key |-> result_key,
     pii_error |-> <<>>]

\* Lines 145-154: the attributes the failure update sets.
PiiFailure(error) ==
    [pii_processing_complete |-> FALSE, pii_error |-> error]

\* The most records one event of the PII queue carries.
MaxBatch == 2

\* lambda_handler (lines 10-157) for an event that carries the first n
\* messages of the PII queue. The loop of lines 37-52 assigns document_id,
\* pages and ocr_text_keys for each record and processes nothing: what
\* follows it works on the values of the last record. A message without
\* text keys raises (lines 59-60), and so does a put_object that fails
\* (put_ok FALSE, line 111): the error is recorded (lines 142-157) and the
\* records of the event stay on the queue. Otherwise every zipped page is
\* processed, the results are stored and recorded, and the handler
\* returns, which deletes the records of the event from the queue.
PiiProcess(n, put_ok) ==
    /\ n \in 1..Len(pii.queue)
    /\ LET message == pii.queue[n]
       IN IF message.ocr_text_keys = <<>>
          THEN /\ table' = UpdateItem(table, message.document_id,
                              PiiFailure(NoTextKeysError))
               /\ artifacts' = artifacts
               /\ pii' = pii
          ELSE LET results == PiiPages(NoPiiResults(artifacts), message,
                                       bucket, scans, 1)
                   result_key == PiiResultKey(message.document_id)
               IN IF put_ok
                  THEN /\ artifacts' = PutObject(results.stored, result_key,
                                 [status |-> "PII_PROCESSED",
                                  detected_pii |-> results.detected_pii,
                                  redacted_images |-> results.redacted_images,
                                  pii_detections |-> results.pii_detections,
                                  processing_summary |->
                                      ProcessingSummary(message, results)])
                       /\ table' = UpdateItem(table, message.document_id,
                                      PiiUpdate(result_key))
                       /\ pii' = [pii EXCEPT
                                     !.queue = SubSeq(@, n + 1, Len(@))]
                  ELSE /\ artifacts' = results.stored
                       /\ table' = UpdateItem(table, message.document_id,
                                      PiiFailure(StoreError("put_object")))
                       /\ pii' = pii
    /\ UNCHANGED <<bucket, deliveries, ingest, recorded, executions,
                   textract, scans>>

IngestStep ==
    \/ \E p \in Invocations : IngestValidate(p)
    \/ \E p \in Invocations : IngestGetItem(p)
    \/ \E p \in Invocations : IngestUpdate(p)
    \/ \E p \in Invocations, ok \in BOOLEAN : IngestStartExecution(p, ok)
    \/ \E p \in Invocations : IngestMarkRunning(p)

StageStep ==
    \/ \E e \in DOMAIN executions : OcrProcess(e)
    \/ \E e \in DOMAIN executions : OcrCheck(e)
    \/ \E e \in DOMAIN executions : Aggregate(e)
    \/ \E e \in DOMAIN executions, ok \in BOOLEAN : Classify(e, ok)
    \/ \E j \in DOMAIN textract, s \in {"SUCCEEDED", "FAILED"} : TextractJobEnds(j, s)

\* The whole system: concurrent ingest invocations and executions.
Next ==
    \/ \E p \in Invocations, k \in PageKeys, put \in BOOLEAN :
            deliveries < MaxDeliveries /\ IngestReceive(p, k, put)
    \/ IngestStep
    \/ StageStep

Spec == Init /\ [][Next]_vars

\* Notifications are delivered one after another: each ingest invocation
\* finishes before the next one starts; executions run beside them.
NextSeq ==
    \/ \E p \in Invocations, k \in PageKeys, put \in BOOLEAN :
            AllIdle /\ deliveries < MaxSeqDeliveries /\ IngestReceive(p, k, put)
    \/ IngestStep
    \/ StageStep

SpecSeq == Init /\ [][NextSeq]_vars

\* The ingest handler alone: concurrent invocations, executions not yet run.
NextIngest ==
    \/ \E p \in Invocations, k \in PageKeys, put \in BOOLEAN :
            deliveries < MaxIngestDeliveries /\ IngestReceive(p, k, put)
    \/ IngestStep

SpecIngest == Init /\ [][NextIngest]_vars

NextRedelivery ==
    \/ \E p \in Invocations, k \in PageKeys, put \in BOOLEAN :
            deliveries < MaxRedeliveries /\ IngestReceive(p, k, put)
    \/ IngestStep

SpecRedelivery == Init /\ [][NextRedelivery]_vars

\* The orchestrator re-invokes the stages and every external call succeeds:
\* notifications one after another, no failed hand-off, job or
\* classification; every invocation runs to its end, every job ends and
\* every execution's stage is invoked again and again.
NextServicesOk ==
    \/ \E p \in Invocations, k \in PageKeys, put \in BOOLEAN :
            AllIdle /\ deliveries < MaxSeqDeliveries /\ IngestReceive(p, k, put)
    \/ \E p \in Invocations : IngestValidate(p)
    \/ \E p \in Invocations : IngestGetItem(p)
    \/ \E p \in Invocations : IngestUpdate(p)
    \/ \E p \in Invocations : IngestStartExecution(p, TRUE)
    \/ \E p \in Invocations : IngestMarkRunning(p)
    \/ \E e \in DOMAIN executions : OcrProcess(e)
    \/ \E e \in DOMAIN executions : OcrCheck(e)
    \/ \E e \in DOMAIN executions : Aggregate(e)
    \/ \E e \in DOMAIN executions : Classify(e, TRUE)
    \/ \E j \in DOMAIN textract : TextractJobEnds(j, "SUCCEEDED")

\* The steps of the ingest invocations and of the Textract jobs: finitely
\* many between two deliveries, so weak fairness of their disjunction takes
\* every one of them.
IngestOrJobStep ==
    \/ \E p \in Invocations : IngestValidate(p)
    \/ \E p \in Invocations : IngestGetItem(p)
    \/ \E p \in Invocations : IngestUpdate(p)
    \/ \E p \in Invocations : IngestStartExecution(p, TRUE)
    \/ \E p \in Invocations : IngestMarkRunning(p)
    \/ \E j \in DOMAIN textract : TextractJobEnds(j, "SUCCEEDED")

\* The stage execution e is at (it is at one stage at a time).
StageOf(e) == OcrProcess(e) \/ OcrCheck(e) \/ Aggregate(e) \/ Classify(e, TRUE)

SpecServicesOk ==
    /\ Init
    /\ [][NextServicesOk]_vars
    /\ WF_vars(IngestOrJobStep)
    /\ \A e \in 1..MaxSeqDeliveries : WF_vars(StageOf(e))

\* The aggregation stage alone, on an execution that carries a text key for
\* each of up to three pages, whose texts are any of PageTexts; the object
\* of at most one key cannot be read.
PageTexts == {<<>>, <<"A">>, <<"B">>, <<"A", "B">>}

AggregatedPages == <<KeyDigitStem, KeyD1, KeyD2>>

InitAggregate ==
    \E n \in 0..Len(AggregatedPages) :
      \E texts \in [1..n -> PageTexts], unread \in SUBSET (1..n) :
        /\ Cardinality(unread) <= 1
        /\ table = [d \in {1} |->
                      [document_id |-> 1,
                       pages |-> SubSeq(AggregatedPages, 1, n),
                       pages_received |-> n,
                       status |-> "AGGREGATING",
                       original_filename |-> LastSegment(KeyDigitStem),
                       ocr_text_keys |-> [i \in 1..n |-> TextKey(1, i)]]]
        /\ artifacts = [k \in {TextKey(1, i) : i \in (1..n) \ unread} |->
                          texts[CHOOSE i \in 1..n : TextKey(1, i) = k]]
        /\ executions = <<[document_id |-> 1,
                           pages |-> SubSeq(AggregatedPages, 1, n),
                           pc |-> NextStage("ocr_complete"),
                           textract_jobs |-> EmptyMap,
                           ocr_text_keys |-> [i \in 1..n |-> TextKey(1, i)],
                           error |-> <<>>, raised_by |-> "", puts |-> <<>>,
                           schemas |-> {}, schema_passes |-> <<>>]>>
        /\ bucket = {}
        /\ deliveries = 0
        /\ ingest = [p \in Invocations |-> IdleInvocation]
        /\ recorded = {}
        /\ textract = <<>>
        /\ scans = EmptyMap
        /\ pii = PiiDisabled

NextAggregate == \E e \in DOMAIN executions : Aggregate(e)

SpecAggregate == InitAggregate /\ [][NextAggregate]_vars

\* The ingest handler alone, one record after another, on uploads that
\* pass and uploads that fail its checks.
NextValidate ==
    \/ \E p \in Invocations, k \in ValidationKeys, put \in BOOLEAN :
            AllIdle /\ deliveries < MaxValidateDeliveries /\ IngestReceive(p, k, put)
    \/ IngestStep

SpecValidate == Init /\ [][NextValidate]_vars

\* The ingest handler on one upload, of any of CorrelatorFilenames.
NextCorrelator ==
    \/ /\ deliveries = 0
       /\ \E p \in Invocations, k \in CorrelatorKeys : IngestReceive(p, k, TRUE)
    \/ IngestStep

SpecCorrelator == Init /\ [][NextCorrelator]_vars

\* The OCR stage alone, on the execution of a new Document of one or two
\* pages: the service may fail to read a page, and the orchestrator
\* retries a stage that raised.
OcrPages == <<KeyD1, KeyD2>>

InitOcr ==
    \E n \in 1..Len(OcrPages) :
        /\ table = [d \in {1} |->
                      [document_id |-> 1,
                       pages |-> SubSeq(OcrPages, 1, n),
                       pages_received |-> n,
                       status |-> "OCR_RUNNING",
                       original_filename |-> LastSegment(KeyD1),
                       step_function_execution_arn |-> 1]]
        /\ bucket = Range(SubSeq(OcrPages, 1, n))
        /\ executions = <<NewExecution(1, SubSeq(OcrPages, 1, n))>>
        /\ deliveries = n
        /\ ingest = [p \in Invocations |-> IdleInvocation]
        /\ recorded = {}
        /\ textract = <<>>
        /\ artifacts = EmptyMap
        /\ scans = EmptyMap
        /\ pii = PiiDisabled

NextOcrRetry ==
    \/ \E e \in DOMAIN executions : OcrProcess(e)
    \/ \E e \in DOMAIN executions, k \in Range(OcrPages) : OcrRejects(e, k)
    \/ \E e \in DOMAIN executions : OcrCheck(e)
    \/ \E j \in DOMAIN textract, s \in {"SUCCEEDED", "FAILED"} : TextractJobEnds(j, s)
    \/ \E e \in DOMAIN executions : RetryStage(e)

SpecOcrRetry == InitOcr /\ [][NextOcrRetry]_vars

\* The record store may fail a read or a write of the ingest handler; it
\* accepts every failure marker.
NextStoreFaults ==
    \/ \E p \in Invocations, k \in PageKeys, put \in BOOLEAN :
            AllIdle /\ deliveries < MaxFaultDeliveries /\ IngestReceive(p, k, put)
    \/ IngestStep
    \/ \E p \in Invocations : IngestGetItemRaises(p)
    \/ \E p \in Invocations : IngestUpdateRaises(p)
    \/ \E p \in Invocations : IngestMarkRunningRaises(p, TRUE)
    \/ StageStep

SpecStoreFaults == Init /\ [][NextStoreFaults]_vars

\* The record store may fail the write of a failure marker.
NextMarkerFaults ==
    \/ \E p \in Invocations, k \in PageKeys, put \in BOOLEAN :
            AllIdle /\ deliveries < MaxFaultDeliveries /\ IngestReceive(p, k, put)
    \/ IngestStep
    \/ \E p \in Invocations : IngestMarkerRaises(p)
    \/ \E p \in Invocations : IngestMarkRunningRaises(p, FALSE)
    \/ StageStep
    \/ \E e \in DOMAIN executions : OcrInvoke(e, bucket, FALSE)
    \/ \E e \in DOMAIN executions : AggregateInvoke(e, FALSE)
    \/ \E e \in DOMAIN executions, ok \in BOOLEAN :
          ClassifyInvoke(e, {"classification"}, IF ok THEN TypedReply ELSE FailedReply,
                         {}, {}, FALSE)

SpecMarkerFaults == Init /\ [][NextMarkerFaults]_vars

\* ------------------------------------------------------------------------
\* The PII handler on its own: a completed OCR stage has sent the Document
\* to the PII queue. The pages either show one line holding a detected word
\* in some region of an image of some size, or up to three lines of text.
\* ------------------------------------------------------------------------
\* The coordinates of the regions.
Fractions ==
    {Fraction(0, 1), Fraction(1, 20), Fraction(1, 10), Fraction(1, 5),
     Fraction(1, 2), Fraction(3, 4), Fraction(1, 1)}

\* f <= 1 - g
Fits(f, g) == LET s == FractionSum(f, g) IN s.n <= s.d

\* Bounding boxes inside the page.
Regions ==
    {[Left |-> l, Top |-> t, Width |-> w, Height |-> h] :
        l \in Fractions, t \in Fractions, w \in Fractions, h \in Fractions}

PageRegions == {r \in Regions : Fits(r.Left, r.Width) /\ Fits(r.Top, r.Height)}

\* Image sizes (width, height) in pixels.
ImageSizes == {<<10, 10>>, <<640, 480>>, <<1000, 1000>>}

\* The texts of the lines of a page.
LineTexts ==
    {<<"hello">>, <<"a@b.co">>, <<"A@B.CO", "hello">>, <<"mail", "a@b.co">>,
     <<SsnWord>>}

\* The region of the i-th line of a page of text.
LineRegion(i) ==
    [Left |-> Fraction(1, 10), Top |-> Fraction(i, 10),
     Width |-> Fraction(1, 2), Height |-> Fraction(1, 20)]

\* A page object: whether it opens as an image, its size and its lines.
Scan(raster, size, lines) ==
    [raster |-> raster, width |-> size[1], height |-> size[2], lines |-> lines]

\* Pages of one to three lines of text.
TextScans ==
    {Scan(raster, <<640, 480>>, [i \in 1..n |-> [text |-> texts[i], bbox |-> LineRegion(i)]]) :
        raster \in BOOLEAN, n \in {0}, texts \in {<<>>}}
    \cup
    UNION {{Scan(TRUE, <<640, 480>>,
                 [i \in 1..n |-> [text |-> texts[i], bbox |-> LineRegion(i)]]) :
               texts \in [1..n -> LineTexts]} : n \in 1..3}

\* Pages of one line holding a detected word in some region.
RegionScans ==
    {Scan(TRUE, size, <<[text |-> <<SsnWord>>, bbox |-> r]>>) :
        size \in ImageSizes, r \in PageRegions}

\* The text keys of the pages in page order.
KeysInOrder(pages) == [i \in DOMAIN pages |-> TextKey(1, i)]

\* The text keys the OCR stage can leave for two pages: in page order, in
\* the order the jobs were seen to succeed, or without the text of a job
\* that succeeded after the polling pass.
TextKeyLists ==
    {<<TextKey(1, 1), TextKey(1, 2)>>, <<TextKey(1, 2), TextKey(1, 1)>>,
     <<TextKey(1, 2)>>}

\* The state the OCR stage leaves for a Document of these pages, with
\* these objects still present and PII processing enabled; the text
\* objects of the keys in unread are no longer there.
PiiQueued(pages, ocr_text_keys, page_scans, objects, unread) ==
       /\ table = UpdateItem(EmptyMap, 1,
                     [pages |-> pages, pages_received |-> Len(pages),
                      status |-> "AGGREGATING", ocr_text_keys |-> ocr_text_keys])
       /\ bucket = objects
       /\ scans = page_scans
       /\ artifacts = [k \in Range(ocr_text_keys) \ unread |->
                          JoinLines(page_scans[pages[k[4]]].lines)]
       /\ pii = [enabled |-> TRUE,
                 queue |-> <<[document_id |-> 1, pages |-> pages,
                              ocr_text_keys |-> ocr_text_keys]>>]
       /\ deliveries = Len(pages)
       /\ ingest = [p \in Invocations |-> IdleInvocation]
       /\ recorded = {}
       /\ executions = <<>>
       /\ textract = <<>>

InitPii ==
    \/ \E s \in RegionScans :
          PiiQueued(<<KeyD1>>, KeysInOrder(<<KeyD1>>), [k \in {KeyD1} |-> s], {KeyD1}, {})
    \/ \E s \in TextScans, objects \in SUBSET {KeyD1} :
          PiiQueued(<<KeyD1>>, KeysInOrder(<<KeyD1>>), [k \in {KeyD1} |-> s], objects, {})
    \/ \E s \in TextScans :
          PiiQueued(<<KeyD1>>, KeysInOrder(<<KeyD1>>), [k \in {KeyD1} |-> s], {KeyD1},
                    {TextKey(1, 1)})
    \/ \E s1 \in {s \in TextScans : Len(s.lines) <= 1},
          s2 \in {s \in TextScans : Len(s.lines) <= 1},
          ocr_text_keys \in TextKeyLists :
          PiiQueued(<<KeyD1, KeyD2>>, ocr_text_keys,
                    [k \in {KeyD1, KeyD2} |-> IF k = KeyD1 THEN s1 ELSE s2],
                    {KeyD1, KeyD2}, {})
    \/ PiiQueued(<<>>, <<>>, EmptyMap, {}, {})

NextPii == \E n \in 1..MaxBatch : PiiProcess(n, TRUE)

SpecPii == InitPii /\ [][NextPii]_vars

\* ------------------------------------------------------------------------
\* The classification stage on its own: the aggregator has stored the
\* combined text of a Document of one or two pages (or the combined text
\* cannot be read), and some of the pages may be gone from incoming/. The
\* schema files, the reply of the classification call and the outcome of
\* every copy and delete vary; a stage that raised is invoked again.
\* ------------------------------------------------------------------------
InitClassify ==
    \E n \in 1..Len(OcrPages), readable \in BOOLEAN :
      \E objects \in SUBSET Range(SubSeq(OcrPages, 1, n)) :
        LET pages == SubSeq(OcrPages, 1, n)
            ocr_text_keys == [i \in 1..n |-> TextKey(1, i)]
            texts == [k \in Range(ocr_text_keys) |-> TextOf(pages[k[4]])]
        IN /\ table = [d \in {1} |->
                         [document_id |-> 1,
                          pages |-> pages,
                          pages_received |-> n,
                          status |-> "AGGREGATING",
                          original_filename |-> LastSegment(KeyD1),
                          ocr_text_keys |-> ocr_text_keys,
                          combined_key |-> CombinedKey(1)]]
           /\ artifacts = IF readable
                          THEN PutObject(texts, CombinedKey(1),
                                         CombinedText(ocr_text_keys, texts))
                          ELSE texts
           /\ executions = <<[NewExecution(1, pages) EXCEPT
                                 !.pc = NextStage("aggregated"),
                                 !.ocr_text_keys = ocr_text_keys]>>
           /\ bucket = objects
           /\ deliveries = n
           /\ ingest = [p \in Invocations |-> IdleInvocation]
           /\ recorded = {}
           /\ textract = <<>>
           /\ scans = EmptyMap
           /\ pii = PiiDisabled

NextClassify ==
    \/ \E e \in DOMAIN executions, schema_files \in SUBSET SchemaFiles,
          reply \in Replies :
          \E copy_fails \in SUBSET Range(executions[e].pages),
             delete_fails \in SUBSET Range(executions[e].pages) :
             ClassifyInvoke(e, schema_files, reply, copy_fails, delete_fails, TRUE)
    \/ \E e \in DOMAIN executions : RetryStage(e)

SpecClassify == InitClassify /\ [][NextClassify]_vars

\* The PII stage beside the pipeline: the executions of two new Documents
\* of one page each (images, read without a job), with PII processing
\* enabled. The queue may refuse a
\* message, an event carries one or several of the queued messages, and
\* the PII stage may fail to store its results.
InitPiiBeside ==
    LET pages == [d \in {1, 2} |-> IF d = 1 THEN <<KeyD1>> ELSE <<KeyDigitStem>>]
    IN /\ table = [d \in {1, 2} |->
                     [document_id |-> d,
                      pages |-> pages[d],
                      pages_received |-> 1,
                      status |-> "OCR_RUNNING",
                      original_filename |-> LastSegment(pages[d][1]),
                      step_function_execution_arn |-> d]]
       /\ bucket = {KeyD1, KeyDigitStem}
       /\ executions = [d \in {1, 2} |-> NewExecution(d, pages[d])]
       /\ deliveries = 2
       /\ ingest = [p \in Invocations |-> IdleInvocation]
       /\ recorded = {}
       /\ textract = <<>>
       /\ artifacts = EmptyMap
       /\ scans = EmptyMap
       /\ pii = [enabled |-> TRUE, queue |-> <<>>]

NextPiiBeside ==
    \/ \E e \in DOMAIN executions : OcrProcess(e)
    \/ \E e \in DOMAIN executions, send_ok \in BOOLEAN : OcrCheckInvoke(e, send_ok)
    \/ \E e \in DOMAIN executions : Aggregate(e)
    \/ \E e \in DOMAIN executions, ok \in BOOLEAN : Classify(e, ok)
    \/ \E n \in 1..MaxBatch, put_ok \in BOOLEAN : PiiProcess(n, put_ok)

SpecPiiBeside == InitPiiBeside /\ [][NextPiiBeside]_vars

\* ------------------------------------------------------------------------
\* Properties
\* ------------------------------------------------------------------------
Pages(d) == Get(table[d], "pages", <<>>)

Status(d) == Get(table[d], "status", "")

BaseOf(key) == ParseFilename(LastSegment(key)).base_filename

Occurrences(pages, key) == Cardinality({i \in DOMAIN pages : pages[i] = key})

\* The Documents all of whose written pages share one derived base name.
OneBaseName(d) ==
    \A r1, r2 \in recorded :
        (r1.doc = d /\ r2.doc = d) => BaseOf(r1.key) = BaseOf(r2.key)

\* C1: once every ingest invocation has finished, every page key that an
\* invocation wrote into a Document (of pages sharing a derived base name)
\* is in that Document's pages exactly once: no write discards a page that
\* another invocation appended.
C1_NoPageDiscarded ==
    AllIdle =>
        \A r \in recorded :
            OneBaseName(r.doc) => Occurrences(Pages(r.doc), r.key) = 1

\* The filenames for which the base name recomputed from the stored
\* original_filename is the base name the correlator derived.
LookupAgrees(key) ==
    LET filename == LastSegment(key)
    IN /\ StoredBase(filename).matched
       /\ StoredBase(filename).base = BaseOf(key)

\* C2: first pages of the same new base name, handled by invocations that
\* each found no Document at lookup, end in one Document: no two Documents
\* are created for one base name.
C2_OneDocumentPerNewBase ==
    \A r1, r2 \in recorded :
        (/\ r1.created /\ r2.created
         /\ LookupAgrees(r1.key) /\ LookupAgrees(r2.key)
         /\ BaseOf(r1.key) = BaseOf(r2.key))
        => r1.doc = r2.doc

\* C3: with notifications handled one after another, every page of one base
\* name (a second page, or the same filename again) is written into the
\* same single Document.
C3_SameBaseSameDocument ==
    \A r1, r2 \in recorded : BaseOf(r1.key) = BaseOf(r2.key) => r1.doc = r2.doc

\* The page write of invocation p is the step taken.
PageWriteBy(p) == ingest[p].pc = "update" /\ ingest'[p].pc # "update"

NoDuplicatePage == \A d \in DOMAIN table : \A i, j \in DOMAIN Pages(d) :
    Pages(d)[i] = Pages(d)[j] => i = j

\* C4: no Document's pages holds an object key twice, and the page write of
\* a notification whose key is already in the Document's pages never
\* increases pages_received.
C4_DuplicateDeliveryIdempotent ==
    /\ []NoDuplicatePage
    /\ [][\A p \in Invocations :
            (/\ PageWriteBy(p)
             /\ ingest[p].document_id \in DOMAIN table
             /\ ingest[p].key \in Range(Pages(ingest[p].document_id)))
            => table'[ingest[p].document_id].pages_received
                   <= table[ingest[p].document_id].pages_received]_vars

\* C5: in every Document record, pages_received is the length of pages.
C5_PagesReceivedIsLength ==
    \A d \in DOMAIN table :
        /\ "pages" \in DOMAIN table[d]
        /\ "pages_received" \in DOMAIN table[d]
        /\ table[d].pages_received = Len(table[d].pages)

\* C5 witness: a Document of two pages after interleaved writes of which
\* one discarded a page another invocation had appended.
C5_Witness ==
    \E r \in recorded :
        /\ Len(Pages(r.doc)) = 2
        /\ r.key \notin Range(Pages(r.doc))

StageOrder ==
    <<"AWAITING_PAGES", "OCR_RUNNING", "AGGREGATING", "LLM_RUNNING", "COMPLETE">>

StageRank(status) == Min({i \in DOMAIN StageOrder : StageOrder[i] = status})

\* The changes of status the state machine allows; grew: the step appended
\* a page to the Document.  (A change out of FAILED, a retry, is not judged.)
AllowedChange(old, new, grew) ==
    \/ new = old
    \/ old = "FAILED"
    \/ /\ old \in Range(StageOrder) /\ new \in Range(StageOrder)
       /\ StageRank(old) < StageRank(new)
    \/ new = "AWAITING_PAGES" /\ old \in {"COMPLETE", "OCR_RUNNING"} /\ grew
    \/ new = "FAILED" /\ old \notin {"COMPLETE", "FAILED"}

\* C6: a Document's status only moves forward along the stage sequence,
\* except for the reopening by a newly arrived page (COMPLETE or OCR_RUNNING
\* to AWAITING_PAGES) and the move to FAILED from a non-terminal state.
C6_StatusMovesForward ==
    [][\A d \in DOMAIN table :
          "status" \in DOMAIN table[d]
          => AllowedChange(table[d].status, table'[d].status,
                           Len(Pages(d)) < Len(table'[d].pages))]_vars

\* C7: a Document whose status is FAILED has a non-empty last_error.
C7_FailedHasLastError ==
    \A d \in DOMAIN table :
        Status(d) = "FAILED"
        => ("last_error" \in DOMAIN table[d] /\ table[d].last_error # <<>>)

\* C7 witness: a Document marked FAILED by a stage of an execution.
C7_Witness ==
    \E e \in DOMAIN executions :
        /\ executions[e].pc = "failed"
        /\ Status(executions[e].document_id) = "FAILED"

\* C8: the invocation that writes the first page of a new Document decides
\* to start at once, hands off exactly that page (or marks the Document
\* FAILED when the hand-off raises) and then writes OCR_RUNNING: between
\* the page write and the hand-off it waits for nothing.
C8_SinglePageStartsAtOnce ==
    [][\A p \in Invocations :
          ingest[p].created =>
            /\ PageWriteBy(p) =>
                  /\ ingest'[p].pc = "start"
                  /\ table'[ingest[p].document_id].pages = <<ingest[p].key>>
            /\ (ingest[p].pc = "start" /\ ingest'[p].pc # "start") =>
                  \/ /\ ingest'[p].pc = "mark"
                     /\ Len(executions') = Len(executions) + 1
                     /\ executions'[Len(executions')].document_id = ingest[p].document_id
                     /\ executions'[Len(executions')].pages = <<ingest[p].key>>
                     /\ executions'[Len(executions')].pc = "ocr"
                  \/ table'[ingest[p].document_id].status = "FAILED"
            /\ (ingest[p].pc = "mark" /\ ingest'[p].pc # "mark") =>
                  table'[ingest[p].document_id].status = "OCR_RUNNING"]_vars

\* C8 witness: a new Document of one page, handed off with that page and
\* left in OCR_RUNNING by its invocation, before any stage has run.
C8_Witness ==
    \E r \in recorded :
        /\ r.created
        /\ AllIdle
        /\ Pages(r.doc) = <<r.key>>
        /\ Status(r.doc) = "OCR_RUNNING"
        /\ \E e \in DOMAIN executions :
              /\ executions[e].document_id = r.doc
              /\ executions[e].pages = <<r.key>>
              /\ executions[e].pc = "ocr"
              /\ "textract_jobs" \notin DOMAIN table[r.doc]

\* C9: a second page of the same base name that arrives before the hand-off
\* of the first page has begun its first stage is merged before processing
\* starts: no Document of two pages has a pending hand-off that carries
\* only its first page.
C9_BurstMergedBeforeStart ==
    \A e \in DOMAIN executions :
        LET ex == executions[e]
        IN (/\ ex.pc = "ocr"
            /\ Len(ex.pages) = 1
            /\ "textract_jobs" \notin DOMAIN table[ex.document_id]
            /\ OneBaseName(ex.document_id))
           => Len(Pages(ex.document_id)) < 2

\* The number of pages whose text the stored classification result covers.
AnalysedPages(d) ==
    IF "llm_results" \in DOMAIN table[d]
    THEN Cardinality({i \in DOMAIN table[d].llm_results.document_text :
                         table[d].llm_results.document_text[i] = "--- Page "})
    ELSE 0

\* An ingest invocation has read Document d as COMPLETE, has written a
\* further page of the same base name into it (which resets the status) and
\* is about to hand the pages off.
Reopened(d) ==
    /\ d \in DOMAIN table
    /\ OneBaseName(d)
    /\ \E p \in Invocations :
          /\ ingest[p].pc = "start"
          /\ ingest[p].document_id = d
          /\ ingest[p].status = "COMPLETE"
          /\ Len(ingest[p].pages) > 1

Reprocessed(d) ==
    /\ d \in DOMAIN table
    /\ Status(d) = "COMPLETE"
    /\ AnalysedPages(d) = Len(Pages(d))

\* C10: a Document reopened by a page that arrived after COMPLETE is
\* eventually COMPLETE again, with a result that covers the new page.
C10_LatePageReprocessed ==
    \A d \in 1..MaxSeqDeliveries : Reopened(d) ~> Reprocessed(d)

\* The key invocation p handles is not in the pages it read, and those
\* pages have the key's base name.
NewPageOf(p) ==
    /\ ingest[p].key \notin Range(ingest[p].pages)
    /\ \A i \in DOMAIN ingest[p].pages :
          BaseOf(ingest[p].pages[i]) = BaseOf(ingest[p].key)

\* C11: the page write that adds a new page to a Document whose status is
\* OCR_RUNNING (read and stored) resets the status to AWAITING_PAGES, and
\* the invocation goes on to hand the pages off.
C11_RunningDocumentReopened ==
    [][\A p \in Invocations :
          (/\ PageWriteBy(p)
           /\ NewPageOf(p)
           /\ ingest[p].status = "OCR_RUNNING"
           /\ ingest[p].document_id \in DOMAIN table
           /\ Status(ingest[p].document_id) = "OCR_RUNNING")
          => /\ table'[ingest[p].document_id].status = "AWAITING_PAGES"
             /\ ingest'[p].pc = "start"]_vars

TextKeys(d) == Get(table[d], "ocr_text_keys", <<>>)

\* C12: in every Document (of pages of one base name) the i-th text key is
\* the text artifact of the i-th page.
C12_TextKeysFollowPages ==
    \A d \in DOMAIN table :
        OneBaseName(d) =>
            \A i \in DOMAIN TextKeys(d) :
                /\ i \in DOMAIN Pages(d)
                /\ TextKeys(d)[i] = TextKey(d, i)
                /\ TextKeys(d)[i] \in DOMAIN artifacts
                /\ artifacts[TextKeys(d)[i]] = TextOf(Pages(d)[i])

\* The executions whose OCR stage has reported ocr_complete.
OcrReportedComplete(e) ==
    e \in DOMAIN executions /\ executions[e].pc = NextStage("ocr_complete")

\* C13: an execution whose OCR stage reported completion carries one stored
\* text key for every page of its page list.
C13_CompleteHasEveryText ==
    \A e \in DOMAIN executions :
        OcrReportedComplete(e) =>
            /\ Len(executions[e].ocr_text_keys) = Len(executions[e].pages)
            /\ \A i \in DOMAIN executions[e].ocr_text_keys :
                  executions[e].ocr_text_keys[i] \in DOMAIN artifacts

\* The step taken is an OCR-stage pass of execution e over its pages that
\* raised no error (lines 51-161).
OcrPassBy(e) ==
    /\ executions[e].pc = NextStage("started")
    /\ executions'[e].pc = NextStage("read")

\* The handles recorded for Document d.
TextractJobs(d) == Get(table[d], "textract_jobs", EmptyMap)

\* C14: an OCR-stage pass gives every page that had no recorded handle the
\* sentinel and a stored text (page list of one page, no job started), or
\* the handle of one new asynchronous job and no stored text (page list of
\* several pages).
C14_SubmissionByPageCount ==
    [][\A e \in DOMAIN executions :
          OcrPassBy(e) =>
            LET ex == executions[e]
                d == ex.document_id
            IN \A i \in DOMAIN ex.pages :
                 ex.pages[i] \notin DOMAIN TextractJobs(d) =>
                   IF Len(ex.pages) = 1
                   THEN /\ table'[d].textract_jobs[ex.pages[i]] = SyncComplete
                        /\ TextKey(d, 1) \in Range(table'[d].ocr_text_keys)
                        /\ TextKey(d, 1) \in DOMAIN artifacts'
                        /\ artifacts'[TextKey(d, 1)] = TextOf(ex.pages[i])
                        /\ textract' = textract
                   ELSE /\ \E j \in DOMAIN textract' \ DOMAIN textract :
                             /\ table'[d].textract_jobs[ex.pages[i]] = JobHandle(j)
                             /\ textract'[j] = [page |-> ex.pages[i], status |-> "IN_PROGRESS",
                                              message |-> NoMessage]
                        /\ Cardinality({j \in DOMAIN textract' \ DOMAIN textract :
                                            textract'[j].page = ex.pages[i]}) = 1
                        /\ TextKey(d, i) \in DOMAIN artifacts' =>
                               /\ TextKey(d, i) \in DOMAIN artifacts
                               /\ artifacts'[TextKey(d, i)] = artifacts[TextKey(d, i)]]_vars

\* C14 witness: a Document holding the sentinel for a page submitted alone
\* and the handle of a running job for a page submitted with others.
C14_Witness ==
    \E d \in DOMAIN table :
        \E k1, k2 \in DOMAIN TextractJobs(d) :
            /\ TextractJobs(d)[k1] = SyncComplete
            /\ ValidJob(textract, TextractJobs(d)[k2])
            /\ textract[TextractJobs(d)[k2][2]].status = "IN_PROGRESS"

\* C15: an OCR-stage pass over several pages replaces every recorded handle
\* the service rejects as invalid by the handle of a new job.
C15_InvalidHandleResubmitted ==
    [][\A e \in DOMAIN executions :
          (/\ OcrPassBy(e)
           /\ Len(executions[e].pages) > 1
           /\ OneBaseName(executions[e].document_id)) =>
            LET d == executions[e].document_id
            IN \A k \in Range(executions[e].pages) :
                 (k \in DOMAIN TextractJobs(d) /\ ~ValidJob(textract, TextractJobs(d)[k]))
                 => /\ table'[d].textract_jobs[k] # TextractJobs(d)[k]
                    /\ ValidJob(textract', table'[d].textract_jobs[k])]_vars

\* Page i of execution e has a recorded job that FAILED, and every page
\* before it has a recorded handle of a job that did not fail.
FirstFailedJob(e, i) ==
    LET ex == executions[e]
        jobs == TextractJobs(ex.document_id)
        failed(k) == /\ k \in DOMAIN jobs
                     /\ ValidJob(textract, jobs[k])
                     /\ textract[jobs[k][2]].status = "FAILED"
    IN /\ i \in DOMAIN ex.pages
       /\ failed(ex.pages[i])
       /\ \A j \in 1..(i - 1) : ex.pages[j] \in DOMAIN jobs /\ ~failed(ex.pages[j])

\* C16: an OCR-stage invocation over several pages that polls a FAILED job
\* ends the execution with an error and marks the Document FAILED with a
\* last_error that names the page and ends with the job's failure message.
C16_FailedJobMarksFailed ==
    [][\A e \in DOMAIN executions :
          (/\ executions[e].pc = NextStage("started")
           /\ executions'[e] # executions[e]
           /\ Len(executions[e].pages) > 1
           /\ executions[e].document_id \in DOMAIN table)
          => \A i \in DOMAIN executions[e].pages :
               FirstFailedJob(e, i) =>
                 LET d == executions[e].document_id
                     job == textract[TextractJobs(d)[executions[e].pages[i]][2]]
                     last_error == table'[d].last_error
                 IN /\ executions'[e].pc = NextStage("raised")
                    /\ table'[d].status = "FAILED"
                    /\ last_error =
                         <<"Textract job failed for ">> \o executions[e].pages[i]
                           \o <<": ", IF job.message \in StatusMessages \ {NoMessage}
                                      THEN job.message ELSE "Unknown error">>]_vars

\* C16 witness: an execution ended by an error at a Document marked FAILED
\* with the message of a failed job.
C16_Witness ==
    \E e \in DOMAIN executions :
        /\ executions[e].pc = NextStage("raised")
        /\ Status(executions[e].document_id) = "FAILED"
        /\ table[executions[e].document_id].last_error[1] = "Textract job failed for "
        /\ \E j \in DOMAIN textract :
              /\ textract[j].status = "FAILED"
              /\ textract[j].message # NoMessage
              /\ table[executions[e].document_id].last_error[
                     Len(table[executions[e].document_id].last_error)] = textract[j].message

\* Execution e (of a Document of one base name) is at its OCR stage.
AtOcrStage(e) ==
    /\ e \in DOMAIN executions
    /\ executions[e].pc \in {NextStage("started"), NextStage("read")}
    /\ OneBaseName(executions[e].document_id)

\* The OCR stage of execution e has reported completion, or has raised.
PastOcrStage(e) ==
    /\ e \in DOMAIN executions
    /\ executions[e].pc \notin {NextStage("started"), NextStage("read")}

\* C17: with the OCR stage invoked again and again and every job ending
\* SUCCEEDED, every execution eventually leaves its OCR stage.
C17_OcrStageCompletes ==
    \A e \in 1..MaxSeqDeliveries : AtOcrStage(e) ~> PastOcrStage(e)

\* "--- Page i ---\n" + c + "\n\n"
PageBlock(i, c) ==
    <<"--- Page ", <<"1", "2", "3">>[i], " ---", "\n">> \o c \o <<"\n", "\n">>

\* The concatenation of the blocks of the texts c[1], ..., c[n], n <= 3.
ExpectedCombined(c) ==
    (IF Len(c) >= 1 THEN PageBlock(1, c[1]) ELSE <<>>)
      \o (IF Len(c) >= 2 THEN PageBlock(2, c[2]) ELSE <<>>)
      \o (IF Len(c) >= 3 THEN PageBlock(3, c[3]) ELSE <<>>)

\* The texts of the text keys execution e carries.
TextsOf(e) ==
    [i \in DOMAIN executions[e].ocr_text_keys |-> artifacts[executions[e].ocr_text_keys[i]]]

Aggregated(e) ==
    e \in DOMAIN executions /\ executions[e].pc = NextStage("aggregated")

\* C18: the combined artifact of an aggregated execution is the
\* concatenation, in order, of "--- Page i ---\n" + text i + "\n\n"; for the
\* texts "A", "B" it is "--- Page 1 ---\nA\n\n--- Page 2 ---\nB\n\n".
C18_CombinedTextFormat ==
    \A e \in DOMAIN executions :
        Aggregated(e) =>
            /\ artifacts[CombinedKey(executions[e].document_id)] = ExpectedCombined(TextsOf(e))
            /\ TextsOf(e) = <<<<"A">>, <<"B">>>> =>
                 artifacts[CombinedKey(executions[e].document_id)] =
                   <<"--- Page ", "1", " ---", "\n", "A", "\n", "\n",
                     "--- Page ", "2", " ---", "\n", "B", "\n", "\n">>

\* C18 witness: an aggregated execution of the two texts "A", "B".
C18_Witness ==
    \E e \in DOMAIN executions :
        /\ Aggregated(e)
        /\ TextsOf(e) = <<<<"A">>, <<"B">>>>
        /\ CombinedKey(executions[e].document_id) \in DOMAIN artifacts

\* C19: an aggregation invocation that has no text key, or a text key it
\* cannot read, stores nothing and leaves combined_key as it was; it marks
\* the Document FAILED with a last_error and ends the execution in error.
C19_NoPartialAggregation ==
    [][\A e \in DOMAIN executions :
          (/\ executions[e].pc = NextStage("ocr_complete")
           /\ executions'[e] # executions[e]
           /\ \/ executions[e].ocr_text_keys = <<>>
              \/ \E k \in Range(executions[e].ocr_text_keys) : k \notin DOMAIN artifacts)
          => LET d == executions[e].document_id
             IN /\ artifacts' = artifacts
                /\ ("combined_key" \in DOMAIN table'[d]) = ("combined_key" \in DOMAIN table[d])
                /\ table'[d].status = "FAILED"
                /\ "last_error" \in DOMAIN table'[d]
                /\ table'[d].last_error # <<>>
                /\ executions'[e].pc = NextStage("raised")]_vars

\* C19 witness: an aggregation that could not read one of two text keys
\* has ended in error and stored no combined artifact.
C19_Witness ==
    \E e \in DOMAIN executions :
        /\ executions[e].pc = NextStage("raised")
        /\ Len(executions[e].ocr_text_keys) = 2
        /\ \E k \in Range(executions[e].ocr_text_keys) : k \notin DOMAIN artifacts
        /\ \E k \in Range(executions[e].ocr_text_keys) : k \in DOMAIN artifacts
        /\ CombinedKey(executions[e].document_id) \notin DOMAIN artifacts
        /\ Status(executions[e].document_id) = "FAILED"

\* The status invocation p last saw in the Document: the one get_item
\* returned, or the one its own page write set.
ObservedStatus(p) ==
    LET written == PageUpdate(ingest[p].pages, ingest[p].status, ingest[p].filename)
    IN IF ingest[p].pc = "mark" /\ "status" \in DOMAIN written
       THEN written.status
       ELSE ingest[p].status

\* C20: a status write takes effect only on the status its handler last
\* saw: the page write and the OCR_RUNNING write of an ingest invocation
\* leave a status changed since its read as it is, and the COMPLETE write
\* of an execution leaves a status other than the AGGREGATING its OCR
\* stage set as it is.
C20_StatusWritesConditional ==
    [][/\ \A p \in Invocations :
            (/\ ingest[p].pc \in {"update", "mark"}
             /\ ingest'[p] # ingest[p]
             /\ ingest[p].document_id \in DOMAIN table
             /\ Status(ingest[p].document_id) # ObservedStatus(p))
            => table'[ingest[p].document_id].status = Status(ingest[p].document_id)
       /\ \A e \in DOMAIN executions :
            (/\ executions[e].pc = NextStage("aggregated")
             /\ executions'[e] # executions[e]
             /\ executions[e].document_id \in DOMAIN table
             /\ Status(executions[e].document_id) # "AGGREGATING")
            => table'[executions[e].document_id].status
                   = Status(executions[e].document_id)]_vars

\* The step taken ends ingest invocation p by raising to its caller.
IngestRaisesBy(p) ==
    /\ ingest[p].pc # "idle"
    /\ ingest'[p].pc = "idle"
    /\ ingest'[p].error # <<>>

\* The step taken ends a stage of execution e by raising to the orchestrator.
StageRaisesBy(e) ==
    /\ executions[e].pc # NextStage("raised")
    /\ executions'[e].pc = NextStage("raised")

\* C21: a handler invocation that raises while it handles an existing
\* Document leaves that Document FAILED with a non-empty last_error (the
\* record store accepting every failure marker).
C21_FailureMarksFailed ==
    [][/\ \A p \in Invocations :
            (IngestRaisesBy(p) /\ ingest[p].document_id \in DOMAIN table)
            => /\ table'[ingest[p].document_id].status = "FAILED"
               /\ "last_error" \in DOMAIN table'[ingest[p].document_id]
               /\ table'[ingest[p].document_id].last_error # <<>>
       /\ \A e \in DOMAIN executions :
            (StageRaisesBy(e) /\ executions[e].document_id \in DOMAIN table)
            => /\ table'[executions[e].document_id].status = "FAILED"
               /\ "last_error" \in DOMAIN table'[executions[e].document_id]
               /\ table'[executions[e].document_id].last_error # <<>>]_vars

\* C22: the error with which a handler invocation ends is never the error
\* of a failure-marker write.
C22_MarkerFailureNotEscalated ==
    [][/\ \A p \in Invocations :
            IngestRaisesBy(p) => ingest'[p].error # MarkerWriteError
       /\ \A e \in DOMAIN executions :
            StageRaisesBy(e) => executions'[e].error # MarkerWriteError]_vars

\* The page invocation p holds fails a check of lines 136-156: extension
\* not listed, head_object raising (no such object), content type not valid.
FailsValidation(p) ==
    \/ Lower(ingest[p].file_extension) \notin SupportedExtensions
    \/ ingest[p].key \notin bucket
    \/ UploadContentType[ingest[p].key] \notin ValidMimeTypes

\* The invocation that takes the next record.
NextInvocation == Min({q \in Invocations : ingest[q].pc = "idle"})

\* C23: a record whose key is outside incoming/ or has no parsable name is
\* dropped at receipt, and a page that fails a check is dropped at
\* validation: the step changes no Document record, starts no execution,
\* records no page and leaves the invocation, without error, ready for its
\* next record; no other page gets past validation.
C23_InvalidPageSkipped ==
    [][/\ \A p \in Invocations :
            (ingest[p].pc = "validate" /\ ingest'[p] # ingest[p])
            => IF FailsValidation(p)
               THEN /\ table' = table
                    /\ executions' = executions
                    /\ recorded' = recorded
                    /\ ingest'[p] = IdleInvocation
               ELSE ingest'[p].pc = "get"
       /\ (deliveries' # deliveries /\ \A q \in Invocations : ingest'[q].pc = "idle")
            => /\ table' = table
               /\ executions' = executions
               /\ recorded' = recorded
               /\ ingest'[NextInvocation] = IdleInvocation
       /\ \A p \in Invocations :
            ingest'[p].pc # "idle" => StartsWith(ingest'[p].key, IncomingPrefix)]_vars

\* C23 witness: the first record was skipped (nothing is stored) and the
\* page of the second record has passed validation.
C23_Witness ==
    /\ deliveries = 2
    /\ table = EmptyMap
    /\ \E p \in Invocations : ingest[p].pc = "get"

\* C24: the extension check rejects a page exactly when its lower-cased
\* extension is none of jpg, jpeg, png, pdf, tiff, tif.
C24_RejectsOutsideSupportedSet ==
    \A p \in Invocations :
        ingest[p].pc = "validate" =>
            (ExtensionRejected(ingest[p].file_extension)
             <=> Lower(ingest[p].file_extension) \notin
                    {<<"j", "p", "g">>, <<"j", "p", "e", "g">>, <<"p", "n", "g">>,
                     <<"p", "d", "f">>, <<"t", "i", "f", "f">>, <<"t", "i", "f">>})

\* The <<i, j>> for which f is a stem f[1..i], a separator, the digits
\* f[i+2..j], a dot and an extension.
DigitGroups(f) ==
    {g \in (1..Len(f)) \X (1..Len(f)) :
        /\ g[1] + 2 <= g[2]
        /\ IsSeparator(f[g[1] + 1])
        /\ AllDigits(f, g[1] + 2, g[2])
        /\ g[2] + 2 <= Len(f)
        /\ f[g[2] + 1] = "."}

\* The position of the dot before the extension of f (0 if f has no stem or
\* no extension).
ExtensionDot(f) ==
    LET dots == {i \in 2..(Len(f) - 1) : f[i] = "."}
    IN IF dots = {} \/ f[Len(f)] = "." THEN 0 ELSE Max(dots)

\* C25: for a filename of the form stem, separator, digits, dot, extension
\* the correlator yields the stem and the digits of the last such group;
\* for any other filename with an extension it yields the whole stem and
\* page 1.
C25_CorrelatorOutput ==
    \A p \in Invocations :
        ingest[p].pc = "validate" =>
            LET f == ingest[p].filename
                groups == DigitGroups(f)
            IN IF groups # {}
               THEN LET g == CHOOSE g \in groups : \A h \in groups : h[1] <= g[1]
                    IN /\ ingest[p].base_filename = Slice(f, 1, g[1])
                       /\ ingest[p].page_number = ParseInt(Slice(f, g[1] + 2, g[2]))
               ELSE ExtensionDot(f) # 0 =>
                       /\ ingest[p].base_filename = Slice(f, 1, ExtensionDot(f) - 1)
                       /\ ingest[p].page_number = 1

\* The step taken is an OCR-stage invocation of execution e.
OcrInvocationBy(e) ==
    /\ executions[e].pc = NextStage("started")
    /\ executions'[e].pc # NextStage("started")

\* C26: an OCR-stage invocation that follows one that raised starts no job
\* for a page that already has a job, and stores no text key that is
\* already stored.
C26_OcrRetryIdempotent ==
    [][\A e \in DOMAIN executions :
          (OcrInvocationBy(e) /\ executions[e].raised_by = NextStage("started"))
          => /\ \A k \in Range(executions[e].pages) :
                  (\E j \in DOMAIN textract : textract[j].page = k)
                  => \A j \in DOMAIN textract' \ DOMAIN textract : textract'[j].page # k
             /\ \A w \in Range(executions'[e].puts) : w \notin DOMAIN artifacts]_vars

\* C27: an OCR-stage invocation stores only text keys that are not stored
\* yet, and a stored text key always holds the text of the page at its
\* number.
C27_TextKeyWrittenOnce ==
    [][\A e \in DOMAIN executions :
          OcrInvocationBy(e)
          => /\ \A w \in Range(executions'[e].puts) : w \notin DOMAIN artifacts
             /\ \A i \in DOMAIN executions[e].pages :
                  TextKey(executions[e].document_id, i) \in DOMAIN artifacts'
                  => artifacts'[TextKey(executions[e].document_id, i)]
                        = TextOf(executions[e].pages[i])]_vars

\* The redacted images stored.
RedactedKeys == {k \in DOMAIN artifacts : Len(k) = 5 /\ k[5] = "redacted"}

\* floor(f * size)
Floor(f, size) == (f.n * size) \div f.d

\* C28: every rectangle painted on a redacted image of W x H pixels is, for
\* the region {left, top, width, height} of a line of the page, the
\* rectangle from [max(0, floor(left*W) - 8), max(0, floor(top*H) - 8)] to
\* [min(W, floor((left+width)*W) + 8), min(H, floor((top+height)*H) + 8)];
\* it lies within the image, and the region {0.1, 0.1, 0.2, 0.05} on a
\* 1000 x 1000 image is painted from [92, 92] to [308, 158].
C28_RedactionRectangle ==
    \A k \in RedactedKeys :
        LET image == artifacts[k]
            W == image.size[1]
            H == image.size[2]
            lines == scans[image.source].lines
        IN \A b \in DOMAIN image.painted :
              LET r == image.painted[b]
              IN /\ \E i \in DOMAIN lines :
                      LET g == lines[i].bbox
                      IN /\ r[1] = Max({0, Floor(g.Left, W) - 8})
                         /\ r[2] = Max({0, Floor(g.Top, H) - 8})
                         /\ r[3] = Min({W, Floor(FractionSum(g.Left, g.Width), W) + 8})
                         /\ r[4] = Min({H, Floor(FractionSum(g.Top, g.Height), H) + 8})
                         /\ (/\ W = 1000 /\ H = 1000
                             /\ g = [Left |-> Fraction(1, 10), Top |-> Fraction(1, 10),
                                     Width |-> Fraction(1, 5), Height |-> Fraction(1, 20)])
                            => r = <<92, 92, 308, 158>>
                 /\ 0 <= r[1] /\ r[1] <= r[3] /\ r[3] <= W
                 /\ 0 <= r[2] /\ r[2] <= r[4] /\ r[4] <= H

\* A region touching two edges of a small image has been painted: the
\* padding is cut off on both sides.
C28_Witness ==
    \E k \in RedactedKeys :
        /\ artifacts[k].size = <<10, 10>>
        /\ scans[artifacts[k].source].lines[1].bbox.Left = Fraction(0, 1)
        /\ scans[artifacts[k].source].lines[1].bbox.Width = Fraction(1, 1)
        /\ artifacts[k].painted = <<<<0, 0, 10, 10>>>>

\* The detections of page i of Document d: those of the OCR text at its
\* position in ocr_text_keys, none for a page without one.
DetectionsOf(d, i) ==
    IF i \in DOMAIN TextKeys(d)
    THEN DetectPiiInText(GetOcrText(artifacts, TextKeys(d)[i]))
    ELSE <<>>

\* C29: once the PII results of a Document are stored, no object is stored
\* under a page key; every object other than the OCR texts and the results
\* is the redacted image of page n under the redacted key of page n; and a
\* page without detections has no redacted image and no entry in
\* redacted_images.
C29_RedactionKeepsSource ==
    \A d \in DOMAIN table :
        PiiResultKey(d) \in DOMAIN artifacts
        => /\ \A k \in DOMAIN artifacts : k \notin Range(Pages(d))
           /\ \A k \in DOMAIN artifacts \ (Range(TextKeys(d)) \cup {PiiResultKey(d)}) :
                 \E n \in DOMAIN Pages(d) :
                    /\ k = RedactedKey(d, n)
                    /\ artifacts[k].source = Pages(d)[n]
           /\ \A n \in DOMAIN Pages(d) :
                 DetectionsOf(d, n) = <<>>
                 => /\ RedactedKey(d, n) \notin DOMAIN artifacts
                    /\ RedactedKey(d, n)
                          \notin Range(artifacts[PiiResultKey(d)].redacted_images)

\* A Document of two pages has been processed: the first page has no
\* detection, the second has one and is redacted.
C29_Witness ==
    /\ 1 \in DOMAIN table
    /\ PiiResultKey(1) \in DOMAIN artifacts
    /\ Len(Pages(1)) = 2
    /\ DetectionsOf(1, 1) = <<>>
    /\ DetectionsOf(1, 2) # <<>>
    /\ artifacts[PiiResultKey(1)].redacted_images = <<RedactedKey(1, 2)>>
    /\ RedactedKey(1, 2) \in DOMAIN artifacts

\* The pages of Document d the PII handler processes: zip(pages,
\* ocr_text_keys).
PiiPagesOf(d) == DOMAIN Pages(d) \cap DOMAIN TextKeys(d)

\* The detections listed for Document d: those of its processed pages.
RECURSIVE DetectionsUpTo(_, _)
DetectionsUpTo(d, n) ==
    IF n = 0 THEN <<>> ELSE DetectionsUpTo(d, n - 1) \o DetectionsOf(d, n)

\* C30: for every detected span of a processed page, the mapper returns
\* the region of a line whose text equals the span text if there is one,
\* otherwise the region of a line whose text contains the span text if
\* there is one, otherwise no region; it returns no more regions than
\* there are detections; and every span, mapped or not, is listed in the
\* pii_detections of the stored results.
C30_MapperRegions ==
    \A d \in DOMAIN table :
        PiiResultKey(d) \in DOMAIN artifacts
        => /\ \A n \in PiiPagesOf(d) :
                 LET response == GetTextractResponse(bucket, scans, Pages(d)[n])
                     lines == response.Blocks
                     detections == DetectionsOf(d, n)
                 IN /\ Len(MapPiiToBoundingBoxes(detections, response)) <= Len(detections)
                    /\ \A j \in DOMAIN detections :
                          LET span == detections[j].text
                              mapped == MapPiiToBoundingBoxes(<<detections[j]>>, response)
                              equal == {i \in DOMAIN lines : lines[i].text = span}
                              containing == {i \in DOMAIN lines :
                                                ContainsText(lines[i].text, span)}
                          IN IF equal # {}
                             THEN /\ Len(mapped) = 1
                                  /\ \E i \in equal : mapped[1].bounding_box = lines[i].bbox
                             ELSE IF containing # {}
                             THEN /\ Len(mapped) = 1
                                  /\ \E i \in containing :
                                        mapped[1].bounding_box = lines[i].bbox
                             ELSE mapped = <<>>
           /\ artifacts[PiiResultKey(d)].pii_detections
                 = DetectionsUpTo(d, Max(PiiPagesOf(d) \cup {0}))

\* C31: a classification-stage invocation whose classification call
\* reports failure marks the Document FAILED with the error as last_error,
\* raises that error, stores no object, takes no page out of incoming/ and
\* does not write COMPLETE.
C31_ClassificationFailureIsFatal ==
    [][\A e \in DOMAIN executions, schema_files \in SUBSET SchemaFiles :
          \A copy_fails \in SUBSET Range(executions[e].pages),
             delete_fails \in SUBSET Range(executions[e].pages) :
             (/\ "classification" \in schema_files
              /\ CombinedKey(executions[e].document_id) \in DOMAIN artifacts
              /\ ClassifyInvoke(e, schema_files, FailedReply, copy_fails, delete_fails, TRUE))
             => LET d == executions[e].document_id
                IN /\ table'[d].status = "FAILED"
                   /\ table'[d].status # "COMPLETE"
                   /\ table'[d].last_error # <<>>
                   /\ executions'[e].pc = NextStage("raised")
                   /\ executions'[e].error = table'[d].last_error
                   /\ artifacts' = artifacts
                   /\ ResultKey(d) \in DOMAIN artifacts' => ResultKey(d) \in DOMAIN artifacts
                   /\ bucket' = bucket]_vars

\* The classification call of a Document whose pages are all in incoming/
\* has failed: the stage has raised and the Document is FAILED.
C31_Witness ==
    \E e \in DOMAIN executions :
        /\ executions[e].pc = NextStage("raised")
        /\ executions[e].raised_by = NextStage("aggregated")
        /\ executions[e].error = <<"OpenAI API call failed", FailedReply.error>>
        /\ Range(executions[e].pages) \subseteq bucket
        /\ table[executions[e].document_id].status = "FAILED"

\* The attributes a Document is created with besides those the page update
\* sets.
CreationAttributes == {"ttl", "created_at", "retries"}

\* C32: every Document of the record store carries the attributes it was
\* created with: ttl, created_at and retries.
C32_RecordsCarryTtl ==
    \A d \in DOMAIN table : CreationAttributes \subseteq DOMAIN table[d]

\* C33: the page write of a notification whose key is already in the pages
\* of its Document leaves the status of the Document as it is and does not
\* go on to start an execution, whatever the status and the number of
\* pages.
C33_RedeliveryChangesNothing ==
    [][\A p \in Invocations :
          (/\ PageWriteBy(p)
           /\ ingest[p].document_id \in DOMAIN table
           /\ ingest[p].key \in Range(Pages(ingest[p].document_id))
           /\ ingest[p].key \in Range(ingest[p].pages))
          => /\ table'[ingest[p].document_id].status
                   = Status(ingest[p].document_id)
             /\ ingest'[p].pc # "start"]_vars

StartStatuses == {"AWAITING_PAGES", "COMPLETE"}

\* C34: an ingest invocation goes on to the hand-off only when the status it
\* read is AWAITING_PAGES or COMPLETE, and then with the pages it just
\* stored; with any other status read it ends after the page write, having
\* started nothing; the started execution carries the Document and those
\* pages; and a status becomes OCR_RUNNING by an ingest invocation only in
\* the step after its hand-off succeeded.
C34_HandOffOnlyWhenReady ==
    [][\A p \in Invocations :
          /\ (PageWriteBy(p) /\ ingest[p].status \notin StartStatuses)
             => /\ ingest'[p].pc \notin {"start", "mark"}
                /\ executions' = executions
          /\ (PageWriteBy(p) /\ ingest'[p].pc = "start")
             => ingest'[p].pages = table'[ingest[p].document_id].pages
          /\ (ingest[p].pc = "start" /\ ingest'[p].pc = "mark")
             => /\ ingest[p].status \in StartStatuses
                /\ Len(executions') = Len(executions) + 1
                /\ executions'[Len(executions')].document_id = ingest[p].document_id
                /\ executions'[Len(executions')].pages = ingest[p].pages
                /\ table' = table
          /\ (/\ ingest'[p] # ingest[p]
              /\ ingest[p].document_id \in DOMAIN table
              /\ Status(ingest[p].document_id) # "OCR_RUNNING"
              /\ table'[ingest[p].document_id].status = "OCR_RUNNING")
             => /\ ingest[p].pc = "mark"
                /\ \E e \in DOMAIN executions :
                      /\ executions[e].document_id = ingest[p].document_id
                      /\ executions[e].pages = ingest[p].pages]_vars

\* A Document read as COMPLETE was handed off again and its invocation is
\* about to write OCR_RUNNING.
C34_Witness ==
    \E p \in Invocations :
        /\ ingest[p].pc = "mark"
        /\ ingest[p].status = "COMPLETE"
        /\ executions[Len(executions)].pages = ingest[p].pages

\* The pages an action step takes out of incoming/.
Deleted == bucket \ bucket'

\* C35: in a classification-stage invocation that completes, every page
\* taken out of incoming/ has its copy under complete/{document_id}/, a
\* page whose copy fails stays in incoming/, the Document is COMPLETE, and
\* moved_files lists, once each, exactly the copies of the pages taken out.
C35_DeleteOnlyAfterCopy ==
    [][\A e \in DOMAIN executions, schema_files \in SUBSET SchemaFiles,
          reply \in Replies :
          \A copy_fails \in SUBSET Range(executions[e].pages),
             delete_fails \in SUBSET Range(executions[e].pages) :
             (/\ ClassifyInvoke(e, schema_files, reply, copy_fails, delete_fails, TRUE)
              /\ executions'[e].pc = NextStage("complete"))
             => LET d == executions[e].document_id
                    moved_files == table'[d].moved_files
                IN /\ \A k \in Deleted :
                         /\ CompleteKey(d, k) \in DOMAIN artifacts'
                         /\ k \in Range(executions[e].pages)
                   /\ \A k \in copy_fails \cap bucket : k \in bucket'
                   /\ table'[d].status = "COMPLETE"
                   /\ Range(moved_files) = {CompleteKey(d, k) : k \in Deleted}
                   /\ Len(moved_files) = Cardinality(Deleted)]_vars

\* A completed Document of two pages: one was moved, the copy of the other
\* failed and it is still in incoming/.
C35_Witness ==
    \E d \in DOMAIN table :
        /\ Status(d) = "COMPLETE"
        /\ Len(table[d].moved_files) = 1
        /\ \E k \in Range(Pages(d)) \cap bucket :
              CompleteKey(d, k) \notin DOMAIN artifacts
        /\ \E k \in Range(Pages(d)) \ bucket :
              CompleteKey(d, k) \in DOMAIN artifacts

\* C36: in every state a Document with status COMPLETE has result_key and
\* document_type, result_key names the result object of the Document, and
\* that object is stored.
C36_CompleteHasResult ==
    \A d \in DOMAIN table :
        Status(d) = "COMPLETE"
        => /\ {"result_key", "document_type"} \subseteq DOMAIN table[d]
           /\ table[d].result_key = ResultKey(d)
           /\ ResultKey(d) \in DOMAIN artifacts

\* A Document that went through every stage is COMPLETE, with its type
\* and its stored result.
C36_Witness ==
    \E d \in DOMAIN table :
        /\ Status(d) = "COMPLETE"
        /\ table[d].document_type = TypedReply.data.document_type
        /\ table[d].result_key \in DOMAIN artifacts
        /\ \E e \in DOMAIN executions :
              executions[e].document_id = d /\ executions[e].pc = NextStage("complete")

\* The attributes of a Document the PII stage writes.
PiiFields == {"pii_processing_complete", "pii_result_key", "pii_error"}

\* The messages on the PII queue are for Documents other than d.
NotQueued(d) == \A i \in DOMAIN pii.queue : pii.queue[i].document_id # d

\* C37: a PII-stage invocation, whether it succeeds or fails, leaves every
\* attribute of every Document other than the PII fields as it is and adds
\* none, and leaves the executions alone; and the OCR stage whose pages are
\* all read reports completion with status AGGREGATING when the PII queue
\* refuses its message.
C37_PiiRunsBeside ==
    [][/\ \A n \in 1..MaxBatch, put_ok \in BOOLEAN :
            PiiProcess(n, put_ok)
            => /\ executions' = executions
               /\ DOMAIN table \subseteq DOMAIN table'
               /\ \A d \in DOMAIN table :
                     \A f \in (DOMAIN table[d] \cup DOMAIN table'[d]) \ PiiFields :
                         /\ f \in DOMAIN table[d] \cap DOMAIN table'[d]
                         /\ table'[d][f] = table[d][f]
       /\ \A e \in DOMAIN executions :
            (/\ OcrCheckInvoke(e, FALSE)
             /\ AllComplete(executions[e].pages, executions[e].textract_jobs, textract))
            => /\ table'[executions[e].document_id].status = "AGGREGATING"
               /\ executions'[e].pc = NextStage("ocr_complete")
               /\ pii' = pii]_vars

\* The PII stage failed on one Document whose status is AGGREGATING, and
\* another Document is AGGREGATING although its message never reached the
\* queue.
C37_Witness ==
    \E d1, d2 \in DOMAIN table :
        /\ Status(d1) = "AGGREGATING"
        /\ "pii_processing_complete" \in DOMAIN table[d1]
        /\ ~table[d1].pii_processing_complete
        /\ Status(d2) = "AGGREGATING"
        /\ DOMAIN table[d2] \cap PiiFields = {}
        /\ NotQueued(d2)

\* C38: when a PII-stage invocation returns from an event of n records,
\* the Document of every record has its PII analysis object and is marked
\* pii_processing_complete.
C38_EveryRecordProcessed ==
    [][\A n \in 1..MaxBatch :
          (PiiProcess(n, TRUE) /\ Len(pii'.queue) = Len(pii.queue) - n)
          => \A i \in 1..n :
                LET d == pii.queue[i].document_id
                IN /\ PiiResultKey(d) \in DOMAIN artifacts'
                   /\ "pii_processing_complete" \in DOMAIN table'[d]
                   /\ table'[d].pii_processing_complete]_vars

\* C39: a Document marked pii_processing_complete has, for every one of
\* its pages, a text key at the position of the page whose object can be
\* read.
C39_CompleteMeansEveryPageScanned ==
    \A d \in DOMAIN table :
        ("pii_processing_complete" \in DOMAIN table[d] /\ table[d].pii_processing_complete)
        => \A i \in DOMAIN Pages(d) :
              /\ i \in DOMAIN TextKeys(d)
              /\ TextKeys(d)[i] \in DOMAIN artifacts

\* C40: a classification-stage invocation that finds no schema file, reads
\* the combined text and gets a successful reply works with the default
\* schema, performs the classification pass and completes the Document.
C40_DefaultSchemaClassifies ==
    [][\A e \in DOMAIN executions :
          \A copy_fails \in SUBSET Range(executions[e].pages),
             delete_fails \in SUBSET Range(executions[e].pages) :
             (/\ CombinedKey(executions[e].document_id) \in DOMAIN artifacts
              /\ ClassifyInvoke(e, {}, TypedReply, copy_fails, delete_fails, TRUE))
             => /\ executions'[e].schemas = {DefaultSchema}
                /\ "classification" \in Range(executions'[e].schema_passes)
                /\ table'[executions[e].document_id].status = "COMPLETE"]_vars

====
